---- MODULE Spec2Model ----
(***************************************************************************)
(* A model of dt_renamer: the RTBuilder, the OperationEngine that applies  *)
(* directory operations and file operations to the files of each           *)
(* directory, and the RenameTree commit step (run / dry_run).              *)
(*                                                                         *)
(* A Rust String is a sequence of one-character strings; a PathBuf is the  *)
(* sequence of its components below the root (every source path is         *)
(* canonical, hence absolute).  Option<T> is None or Some(v); a Result is  *)
(* carried as an err field that is NoError or the name of the Error        *)
(* variant.  All file names of the model are valid UTF-8, so OsStr::to_str *)
(* never fails.                                                            *)
(***************************************************************************)
EXTENDS Integers, Sequences, FiniteSets

VARIABLES
    fsys,          \* the file system: directory path -> the listing dir.build() reads
    builder,       \* RTBuilder {directories, files, dir_ops, file_ops}
    engine,        \* OperationEngine (the op_engine of build_from_builder)
    next_dir,      \* position of build_from_builder's loop over builder.directories
    tree,          \* RenameTree {file_set, files}
    pc,            \* "builder", "building", "tree" or "error"
    error,         \* the Error build_tree returned, NoError if none
    run_result,    \* what run returned on (a clone of) the tree, NotRun before
    dry_result,    \* what dry_run returned on (a clone of) the tree, NotRun before
    renamed,       \* the (source, destination) pairs fs::rename has performed
    rename_calls,  \* the sources fs::rename was invoked on, whether it succeeded or not
    rename_fail_at, \* the position whose fs::rename failed during run (0: none)
    trace,         \* history: the operations the engine executed, in order
    last_call      \* the latest call a caller made on an engine it holds itself

vars == <<fsys, builder, engine, next_dir, tree, pc, error, run_result,
          dry_result, renamed, rename_calls, rename_fail_at, trace, last_call>>

-----------------------------------------------------------------------------
(* Bounds of the model *)

MaxDirs == 2
MaxFiles == 2
MaxCalls == 2

-----------------------------------------------------------------------------
(* Strings *)

\* the characters of the model in byte order
CharOrder == <<".", "/", "0", "1", "2", "3", "4", "5", "6", "7", "8", "9",
               "a", "b", "f", "p", "q", "x", "y">>

Ord(c) == CHOOSE i \in 1..Len(CharOrder) : CharOrder[i] = c

\* Ordering::Less = -1, Equal = 0, Greater = 1, as <[u8] as Ord>::cmp
RECURSIVE StrCmp(_, _)
StrCmp(a, b) ==
    IF a = <<>> /\ b = <<>> THEN 0
    ELSE IF a = <<>> THEN -1
    ELSE IF b = <<>> THEN 1
    ELSE IF Ord(Head(a)) < Ord(Head(b)) THEN -1
    ELSE IF Ord(Head(a)) > Ord(Head(b)) THEN 1
    ELSE StrCmp(Tail(a), Tail(b))

\* usize::to_string: the decimal digits of n
Digit(d) == CharOrder[d + 3]

RECURSIVE UsizeToString(_)
UsizeToString(n) ==
    IF n < 10 THEN <<Digit(n)>>
    ELSE UsizeToString(n \div 10) \o <<Digit(n % 10)>>

\* s[from..to] with 0-based byte offsets, to exclusive
Slice(s, from, to) == SubSeq(s, from + 1, to)

IsAt(s, needle, i) == /\ i + Len(needle) <= Len(s)
                      /\ Slice(s, i, i + Len(needle)) = needle

None == [some |-> FALSE]
Some(x) == [some |-> TRUE, v |-> x]

\* str::find: the byte offset of the first occurrence of needle in s, if any
Find(s, needle) ==
    LET hits == {i \in 0..Len(s) : IsAt(s, needle, i)}
    IN  IF hits = {} THEN None
        ELSE Some(CHOOSE i \in hits : \A j \in hits : i <= j)

\* str::rfind: the byte offset of the last occurrence of needle in s, if any
RFind(s, needle) ==
    LET hits == {i \in 0..Len(s) : IsAt(s, needle, i)}
    IN  IF hits = {} THEN None
        ELSE Some(CHOOSE i \in hits : \A j \in hits : i >= j)

\* String::insert_str(idx, text)
InsertStr(base, idx, text) == Slice(base, 0, idx) \o text \o Slice(base, idx, Len(base))

\* str::match_indices(needle) from byte offset from: the starts of the
\* matches found left to right, each search resuming where the match
\* before ended; the empty needle matches at every offset
RECURSIVE MatchIndices(_, _, _)
MatchIndices(s, needle, from) ==
    IF needle = <<>> THEN [i \in 1..(Len(s) + 1 - from) |-> from + i - 1]
    ELSE LET hits == {i \in from..Len(s) : IsAt(s, needle, i)}
         IN  IF hits = {} THEN <<>>
             ELSE LET first == CHOOSE i \in hits : \A j \in hits : i <= j
                  IN  <<first>> \o MatchIndices(s, needle, first + Len(needle))

\* the loop of str::replace over the matches: the text between two matches
\* is copied and each match gives way to the replacement
RECURSIVE ReplaceMatches(_, _, _, _, _)
ReplaceMatches(s, starts, last_end, n, to) ==
    IF starts = <<>> THEN Slice(s, last_end, Len(s))
    ELSE Slice(s, last_end, Head(starts)) \o to
         \o ReplaceMatches(s, Tail(starts), Head(starts) + n, n, to)

\* str::replace(from, to)
StrReplace(s, from, to) == ReplaceMatches(s, MatchIndices(s, from, 0), 0, Len(from), to)

-----------------------------------------------------------------------------
(* Paths *)

ParentDir == <<".", ".">>

\* Path::file_name: the last component, unless the path ends in ".."
FileNameOf(path) ==
    IF path = <<>> \/ path[Len(path)] = ParentDir THEN None
    ELSE Some(path[Len(path)])

\* PathBuf::set_file_name: pop the file name if there is one, then push
SetFileName(path, name) ==
    IF FileNameOf(path).some THEN Append(SubSeq(path, 1, Len(path) - 1), name)
    ELSE Append(path, name)

\* the offset (from 1) of the last "." of a file name, 0 if it has none
LastDot(name) ==
    LET dots == {i \in 1..Len(name) : name[i] = "."}
    IN  IF dots = {} THEN 0 ELSE CHOOSE i \in dots : \A j \in dots : i >= j

\* Path::extension: what follows the last "." of the file name; none if
\* there is no file name, no ".", or the only "." opens the name
Extension(path) ==
    LET name == FileNameOf(path)
    IN  IF ~name.some \/ LastDot(name.v) <= 1 THEN None
        ELSE Some(SubSeq(name.v, LastDot(name.v) + 1, Len(name.v)))

\* Path::file_stem: the file name without its extension
FileStem(path) ==
    LET name == FileNameOf(path)
    IN  IF ~name.some THEN None
        ELSE IF LastDot(name.v) <= 1 THEN name
        ELSE Some(SubSeq(name.v, 1, LastDot(name.v) - 1))

\* PathBuf::set_extension: nothing without a file name; else the stem, and
\* "." with the new extension unless it is empty
SetExtension(path, extension) ==
    IF ~FileNameOf(path).some THEN path
    ELSE SetFileName(path, FileStem(path).v
                           \o (IF extension = <<>> THEN <<>> ELSE <<".">> \o extension))

\* Path::display().to_string() of an absolute path
RECURSIVE PathString(_)
PathString(path) ==
    IF path = <<>> THEN <<>>
    ELSE <<"/">> \o Head(path) \o PathString(Tail(path))

\* <Path as Ord>::cmp: the components compared lexicographically
RECURSIVE PathCmp(_, _)
PathCmp(a, b) ==
    IF a = <<>> /\ b = <<>> THEN 0
    ELSE IF a = <<>> THEN -1
    ELSE IF b = <<>> THEN 1
    ELSE IF StrCmp(Head(a), Head(b)) # 0 THEN StrCmp(Head(a), Head(b))
    ELSE PathCmp(Tail(a), Tail(b))

-----------------------------------------------------------------------------
(* Match rules *)

Equals(s) == [tag |-> "Equals", s |-> s]
Contains(s) == [tag |-> "Contains", s |-> s]
BeginsWith(s) == [tag |-> "BeginsWith", s |-> s]
EndsWith(s) == [tag |-> "EndsWith", s |-> s]
Not(r) == [tag |-> "Not", r |-> r]
And(r1, r2) == [tag |-> "And", r1 |-> r1, r2 |-> r2]
Or(r1, r2) == [tag |-> "Or", r1 |-> r1, r2 |-> r2]

RECURSIVE Resolve(_, _)
Resolve(rule, input) ==
    CASE rule.tag = "Equals" -> input = rule.s
      [] rule.tag = "Contains" ->
            IF Len(rule.s) > Len(input) THEN FALSE
            ELSE Find(input, rule.s).some
      [] rule.tag = "BeginsWith" ->
            IF Len(rule.s) > Len(input) THEN FALSE
            ELSE Slice(input, 0, Len(rule.s)) = rule.s
      [] rule.tag = "EndsWith" ->
            IF Len(rule.s) > Len(input) THEN FALSE
            ELSE Slice(input, Len(input) - Len(rule.s), Len(input)) = rule.s
      [] rule.tag = "And" -> Resolve(rule.r1, input) /\ Resolve(rule.r2, input)
      [] rule.tag = "Or" -> Resolve(rule.r1, input) \/ Resolve(rule.r2, input)
      [] rule.tag = "Not" -> ~Resolve(rule.r, input)

\* resolve panics instead of returning: &input[0..s.len()] and
\* &input[input.len() - s.len()..] panic when the offset is not a char
\* boundary of input, that is when the byte at the offset is a UTF-8
\* continuation byte; && and || do not evaluate their right operand when
\* the left one decides
RECURSIVE ResolvePanics(_, _)
ResolvePanics(rule, input) ==
    LET is_char_boundary(i) ==
            i = 0 \/ i = Len(input) \/ (i < Len(input) /\ input[i + 1] # "A9")
    IN  CASE rule.tag = "BeginsWith" ->
                Len(rule.s) <= Len(input) /\ ~is_char_boundary(Len(rule.s))
          [] rule.tag = "EndsWith" ->
                Len(rule.s) <= Len(input) /\ ~is_char_boundary(Len(input) - Len(rule.s))
          [] rule.tag = "And" ->
                \/ ResolvePanics(rule.r1, input)
                \/ Resolve(rule.r1, input) /\ ResolvePanics(rule.r2, input)
          [] rule.tag = "Or" ->
                \/ ResolvePanics(rule.r1, input)
                \/ ~Resolve(rule.r1, input) /\ ResolvePanics(rule.r2, input)
          [] rule.tag = "Not" -> ResolvePanics(rule.r, input)
          [] OTHER -> FALSE

-----------------------------------------------------------------------------
(* Records of rename_tree.rs *)

NoError == "NoError"

\* File::new_with_ops: the destination starts equal to the source
FileNewWithOps(path, ops) == [source |-> path, ops |-> ops, destination |-> path]

\* Dir::new_with_ops
DirNewWithOps(path, dir_ops, file_ops) ==
    [path |-> path, dir_ops |-> dir_ops, file_ops |-> file_ops,
     contents |-> <<>>, processed |-> FALSE]

\* Dir::build: one File per entry the listing yields, each carrying a clone
\* of the directory's file operations
DirBuild(dir, listing) ==
    [dir EXCEPT !.contents = [i \in 1..Len(listing) |->
                                 FileNewWithOps(<<dir.path, listing[i]>>, dir.file_ops)],
                !.processed = TRUE]

-----------------------------------------------------------------------------
(* OperationEngine: accessors *)

\* The variable table (HashMap<String, String>) is a function from the
\* names the model's operations use to None (no entry) or Some(value).
VarNames == {"v", "w", "global_index", "local_index"}

\* OperationEngine::new
EngineNew(dir_operations, file_operations) ==
    [global_index |-> 0, local_index |-> 0, variables |-> [n \in VarNames |-> None],
     dir_operations |-> dir_operations, file_operations |-> file_operations,
     current_file |-> 0, files |-> <<>>]

\* OperationEngine::current_file: &mut self.files[self.current_file]
current_file(eng) == eng.files[eng.current_file + 1]

set_local_index(eng, index) == [eng EXCEPT !.local_index = index]

\* mutant: the value is not inserted
set_variable_Dropped(eng, var_name, value) == eng

\* HashMap::insert
set_variable(eng, var_name, value) ==
    [eng EXCEPT !.variables[var_name] = Some(value)]

\* mutant: the table is consulted before the two reserved names
get_variable_TableFirst(eng, var_name) ==
    IF eng.variables[var_name].some THEN eng.variables[var_name]
    ELSE CASE var_name = "global_index" -> Some(UsizeToString(eng.global_index))
           [] var_name = "local_index" -> Some(UsizeToString(eng.local_index))
           [] OTHER -> eng.variables[var_name]

get_variable(eng, var_name) ==
    CASE var_name = "global_index" -> Some(UsizeToString(eng.global_index))
      [] var_name = "local_index" -> Some(UsizeToString(eng.local_index))
      [] OTHER -> eng.variables[var_name]

-----------------------------------------------------------------------------
(* Expressions.  Execute returns the engine after the evaluation, the     *)
(* error if one was raised, and the Option<String> produced.              *)

ConstantExpr(value) == [tag |-> "Constant", value |-> value]
VariableExpr(var) == [tag |-> "Variable", var |-> var]
AssignVariableExpr(var, value) == [tag |-> "AssignVariable", var |-> var, value |-> value]
CombineExpr(lhs, rhs) == [tag |-> "Combine", lhs |-> lhs, rhs |-> rhs]
FileNameExpr == [tag |-> "FileName"]
FileExtensionExpr == [tag |-> "FileExtension"]
InsertExpr(position, base, insertion_text) ==
    [tag |-> "Insert", position |-> position, base |-> base,
     insertion_text |-> insertion_text]
ReplaceExpr(content, selection, match_str, replacement) ==
    [tag |-> "Replace", content |-> content, selection |-> selection,
     match_str |-> match_str, replacement |-> replacement]
IfExpr(condition, then_expr, else_expr) ==
    [tag |-> "If", condition |-> condition, then_expr |-> then_expr,
     else_expr |-> else_expr]
LeftExpr(input, match_str, inclusive) ==
    [tag |-> "Left", input |-> input, match_str |-> match_str, inclusive |-> inclusive]
RightExpr(input, match_str, inclusive) ==
    [tag |-> "Right", input |-> input, match_str |-> match_str, inclusive |-> inclusive]

\* enum Position
Index(i) == [kind |-> "Index", i |-> i]
After(f) == [kind |-> "After", f |-> f]
Before(f) == [kind |-> "Before", f |-> f]
Start == [kind |-> "Start"]
End == [kind |-> "End"]

\* mutant: returning a value moves local_index on
ExprOk_CountsUp(eng, val) ==
    [eng |-> [eng EXCEPT !.local_index = @ + 1], err |-> NoError, val |-> val]

ExprOk(eng, val) == [eng |-> eng, err |-> NoError, val |-> val]
ExprErr(eng, e) == [eng |-> eng, err |-> e, val |-> None]

\* mutant: the clamp stops one short of the end of base
InsertIndex_BeforeEnd(i, base) ==
    IF i < Len(base) THEN i ELSE IF base = <<>> THEN 0 ELSE Len(base) - 1

\* *i.min(&base.len())
InsertIndex(i, base) == IF i < Len(base) THEN i ELSE Len(base)

\* the match of InsertExpr::execute on the position, base and
\* insertion_text being present
InsertAt(position, base, insertion_text) ==
    CASE position.kind = "Index" ->
            Some(InsertStr(base, InsertIndex(position.i, base), insertion_text))
      [] position.kind = "After" ->
            LET insert_pos == Find(base, position.f)
            IN  IF ~insert_pos.some THEN None
                ELSE Some(InsertStr(base, insert_pos.v + Len(position.f), insertion_text))
      [] position.kind = "Before" ->
            LET insert_pos == Find(base, position.f)
            IN  IF ~insert_pos.some THEN None
                ELSE Some(InsertStr(base, insert_pos.v, insertion_text))
      [] position.kind = "Start" -> Some(insertion_text \o base)
      [] position.kind = "End" -> Some(base \o insertion_text)

\* mutant: inclusive is ignored
LeftOf_Exclusive(input, match_str, inclusive) ==
    LET slice == Find(input, match_str)
    IN  IF ~slice.some THEN input ELSE Slice(input, 0, slice.v)

\* LeftExpr::execute once input and match_str are present
LeftOf(input, match_str, inclusive) ==
    LET slice == Find(input, match_str)
    IN  IF ~slice.some THEN input
        ELSE Slice(input, 0, IF inclusive THEN slice.v + Len(match_str) ELSE slice.v)

\* RightExpr::execute once input and match_str are present
RightOf(input, match_str, inclusive) ==
    LET slice == Find(input, match_str)
    IN  IF ~slice.some THEN input
        ELSE Slice(input, IF inclusive THEN slice.v ELSE slice.v + Len(match_str),
                   Len(input))

\* [&input[0..slice], replacement, &input[slice + matches.len()..]].join("")
ReplaceOne(input, slice, matches, replacement) ==
    IF ~slice.some THEN input
    ELSE Slice(input, 0, slice.v) \o replacement
         \o Slice(input, slice.v + Len(matches), Len(input))

\* mutant: Last searches from the front as First does
ReplaceIn_LastAsFirst(input, selection, matches, replacement) ==
    CASE selection \in {"First", "Last"} ->
            ReplaceOne(input, Find(input, matches), matches, replacement)
      [] selection = "All" -> StrReplace(input, matches, replacement)

\* the match of ReplaceExpr::execute on the selection, the three operands
\* being present
ReplaceIn(input, selection, matches, replacement) ==
    CASE selection = "First" -> ReplaceOne(input, Find(input, matches), matches, replacement)
      [] selection = "Last" -> ReplaceOne(input, RFind(input, matches), matches, replacement)
      [] selection = "All" -> StrReplace(input, matches, replacement)

\* mutant: the condition is resolved on the whole destination path
IfCondition_FullPath(condition, eng) ==
    Resolve(condition, PathString(current_file(eng).destination))

\* the condition of IfExpr::execute, resolved on what FileNameExpr returns
IfCondition(condition, eng) ==
    Resolve(condition, FileNameOf(current_file(eng).destination).v)

\* mutant: an index beyond the end of base is refused
InsertDone_RejectsLargeIndex(position, o) ==
    IF o.err # NoError THEN ExprErr(o.eng, o.err)
    ELSE IF ~o.some THEN ExprOk(o.eng, None)
    ELSE IF position.kind = "Index" /\ position.i > Len(o.vals[1])
    THEN ExprErr(o.eng, "InsertIndexTooLarge")
    ELSE ExprOk(o.eng, InsertAt(position, o.vals[1], o.vals[2]))

\* InsertExpr::execute once its operands returned o
InsertDone(position, o) ==
    IF o.err # NoError THEN ExprErr(o.eng, o.err)
    ELSE IF ~o.some THEN ExprOk(o.eng, None)
    ELSE ExprOk(o.eng, InsertAt(position, o.vals[1], o.vals[2]))

RECURSIVE ExprExecute(_, _)

\* the operands an expression evaluates one after the other, each through
\* unwrap_res_op! (or the match that does the same): an error or an absence
\* returns at once, before the operands that follow are evaluated
RECURSIVE EvalOperands(_, _, _)

\* mutant: every operand is evaluated, an absence is only remembered
RECURSIVE EvalOperands_Strict(_, _, _)
EvalOperands_Strict(xs, eng, vals) ==
    IF xs = <<>> THEN [eng |-> eng, err |-> NoError, some |-> TRUE, vals |-> vals]
    ELSE LET r == ExprExecute(Head(xs), eng)
         IN  IF r.err # NoError
             THEN [eng |-> r.eng, err |-> r.err, some |-> FALSE, vals |-> vals]
             ELSE IF ~r.val.some
             THEN [EvalOperands_Strict(Tail(xs), r.eng, vals) EXCEPT !.some = FALSE]
             ELSE EvalOperands_Strict(Tail(xs), r.eng, Append(vals, r.val.v))

EvalOperands(xs, eng, vals) ==
    IF xs = <<>> THEN [eng |-> eng, err |-> NoError, some |-> TRUE, vals |-> vals]
    ELSE LET r == ExprExecute(Head(xs), eng)
         IN  IF r.err # NoError \/ ~r.val.some
             THEN [eng |-> r.eng, err |-> r.err, some |-> FALSE, vals |-> vals]
             ELSE EvalOperands(Tail(xs), r.eng, Append(vals, r.val.v))

ExprExecute(x, eng) ==
    CASE x.tag = "Constant" -> ExprOk(eng, Some(x.value))
      [] x.tag = "FileName" -> ExprOk(eng, FileNameOf(current_file(eng).destination))
      [] x.tag = "Variable" ->
            LET g == get_variable(eng, x.var)
            IN  IF g.some THEN ExprOk(eng, g) ELSE ExprErr(eng, "VariableNotDefined")
      [] x.tag = "AssignVariable" ->
            LET r == ExprExecute(x.value, eng)
            IN  IF r.err # NoError \/ ~r.val.some THEN r
                ELSE ExprOk(set_variable(r.eng, x.var, r.val.v), r.val)
      [] x.tag = "Combine" ->
            LET l == ExprExecute(x.lhs, eng)
            IN  IF l.err # NoError THEN l
                ELSE IF ~l.val.some THEN ExprExecute(x.rhs, l.eng)
                ELSE LET r == ExprExecute(x.rhs, l.eng)
                     IN  IF r.err # NoError THEN r
                         ELSE IF ~r.val.some THEN ExprOk(r.eng, l.val)
                         ELSE ExprOk(r.eng, Some(l.val.v \o r.val.v))
      [] x.tag = "FileExtension" -> ExprOk(eng, Extension(current_file(eng).destination))
      [] x.tag = "Insert" ->
            InsertDone(x.position, EvalOperands(<<x.base, x.insertion_text>>, eng, <<>>))
      [] x.tag = "Left" ->
            LET o == EvalOperands(<<x.input, x.match_str>>, eng, <<>>)
            IN  IF o.err # NoError THEN ExprErr(o.eng, o.err)
                ELSE IF ~o.some THEN ExprOk(o.eng, None)
                ELSE ExprOk(o.eng, Some(LeftOf(o.vals[1], o.vals[2], x.inclusive)))
      [] x.tag = "Right" ->
            LET o == EvalOperands(<<x.input, x.match_str>>, eng, <<>>)
            IN  IF o.err # NoError THEN ExprErr(o.eng, o.err)
                ELSE IF ~o.some THEN ExprOk(o.eng, None)
                ELSE ExprOk(o.eng, Some(RightOf(o.vals[1], o.vals[2], x.inclusive)))
      [] x.tag = "Replace" ->
            LET o == EvalOperands(<<x.content, x.match_str, x.replacement>>, eng, <<>>)
            IN  IF o.err # NoError THEN ExprErr(o.eng, o.err)
                ELSE IF ~o.some THEN ExprOk(o.eng, None)
                ELSE ExprOk(o.eng, Some(ReplaceIn(o.vals[1], x.selection,
                                                  o.vals[2], o.vals[3])))
      [] x.tag = "If" ->
            \* FileNameExpr::new().execute(engine)?.unwrap() panics on None
            LET name == FileNameOf(current_file(eng).destination)
            IN  IF ~name.some THEN ExprErr(eng, "Panic")
                ELSE IF IfCondition(x.condition, eng) THEN ExprExecute(x.then_expr, eng)
                ELSE IF x.else_expr.some THEN ExprExecute(x.else_expr.v, eng)
                ELSE ExprOk(eng, None)

-----------------------------------------------------------------------------
(* File operations.  Execute returns the engine, the error if any, and    *)
(* the bool the operation reports.                                        *)

NoOpOperation(expression) == [tag |-> "NoOp", expression |-> expression]
SetNameOperation(name) == [tag |-> "SetName", name |-> name]
SetStemOperation(stem) == [tag |-> "SetStem", stem |-> stem]
SetExtensionOperation(extension) == [tag |-> "SetExtension", extension |-> extension]
IfOperation(condition, then_op, else_op) ==
    [tag |-> "If", condition |-> condition, then_op |-> then_op, else_op |-> else_op]

OpOk(eng, changed) == [eng |-> eng, err |-> NoError, changed |-> changed]
OpErr(eng, e) == [eng |-> eng, err |-> e, changed |-> FALSE]

\* mutant: the operation writes the new path to the source as well
SetDestination_AlsoSource(eng, path) ==
    [eng EXCEPT !.files[eng.current_file + 1].destination = path,
                !.files[eng.current_file + 1].source = path]

SetDestination(eng, path) ==
    [eng EXCEPT !.files[eng.current_file + 1].destination = path]

\* NoOpOperation::execute once expression.execute(engine) returned r
NoOpDone(r) ==
    IF r.err # NoError THEN OpErr(r.eng, r.err) ELSE OpOk(r.eng, FALSE)

\* SetNameOperation::execute once name.execute(engine) returned r
SetNameDone(r) ==
    IF r.err # NoError THEN OpErr(r.eng, r.err)
    ELSE IF ~r.val.some THEN OpOk(r.eng, FALSE)
    ELSE OpOk(SetDestination(r.eng, SetFileName(current_file(r.eng).destination, r.val.v)),
              TRUE)

\* SetStemOperation::execute once stem.execute(engine) returned r: the
\* extension of the destination, if it has one, follows the new stem
SetStemDone(r) ==
    IF r.err # NoError THEN OpErr(r.eng, r.err)
    ELSE IF ~r.val.some THEN OpOk(r.eng, FALSE)
    ELSE LET dest == current_file(r.eng).destination
         IN  OpOk(SetDestination(r.eng,
                      SetFileName(dest, IF Extension(dest).some
                                        THEN r.val.v \o <<".">> \o Extension(dest).v
                                        ELSE r.val.v)),
                  TRUE)

\* SetExtensionOperation::execute once extension.execute(engine) returned r
SetExtensionDone(r) ==
    IF r.err # NoError THEN OpErr(r.eng, r.err)
    ELSE IF ~r.val.some THEN OpOk(r.eng, FALSE)
    ELSE OpOk(SetDestination(r.eng,
                  SetExtension(current_file(r.eng).destination, r.val.v)),
              TRUE)

RECURSIVE FileOpExecute(_, _)
FileOpExecute(op, eng) ==
    CASE op.tag = "NoOp" ->
            NoOpDone(ExprExecute(op.expression, eng))
      [] op.tag = "If" ->
            IF Resolve(op.condition, PathString(current_file(eng).destination))
            THEN FileOpExecute(op.then_op, eng)
            ELSE IF op.else_op.some THEN FileOpExecute(op.else_op.v, eng)
            ELSE OpOk(eng, FALSE)
      [] op.tag = "SetName" ->
            SetNameDone(ExprExecute(op.name, eng))
      [] op.tag = "SetStem" -> SetStemDone(ExprExecute(op.stem, eng))
      [] op.tag = "SetExtension" -> SetExtensionDone(ExprExecute(op.extension, eng))

-----------------------------------------------------------------------------
(* Directory operations.  Execute returns the engine, the file list and   *)
(* the error if any.                                                      *)

SortOperation(direction) == [tag |-> "Sort", direction |-> direction]
RemoveOperation(rule) == [tag |-> "Remove", rule |-> rule]
IncludeOnlyOperation(rule) == [tag |-> "IncludeOnly", rule |-> rule]
OffsetLocalIndexOperation(offset) == [tag |-> "OffsetLocalIndex", offset |-> offset]

\* mutant: both directions compare a with b
SortBefore_Ascending(direction, a, b) == PathCmp(a.destination, b.destination) <= 0

\* the comparator of sort_unstable_by for each SortDirection
SortBefore(direction, a, b) ==
    IF direction = "Ascending" THEN PathCmp(a.destination, b.destination) <= 0
    ELSE PathCmp(b.destination, a.destination) <= 0

\* sort_unstable_by.  Records that compare equal have equal destinations;
\* directory operations run on freshly built records, whose destination is
\* the source and whose operations are the directory's, so such records
\* are equal and every order the unstable sort may pick is the same list.
RECURSIVE SortInsert(_, _, _)
SortInsert(direction, f, sorted) ==
    IF sorted = <<>> THEN <<f>>
    ELSE IF SortBefore(direction, f, Head(sorted)) THEN <<f>> \o sorted
    ELSE <<Head(sorted)>> \o SortInsert(direction, f, Tail(sorted))

RECURSIVE SortBy(_, _)
SortBy(direction, input) ==
    IF input = <<>> THEN <<>>
    ELSE SortInsert(direction, Head(input), SortBy(direction, Tail(input)))

\* the loop of RemoveOperation (keep = FALSE) and IncludeOnlyOperation
\* (keep = TRUE): a file stays when rule.resolve(name) = keep
RECURSIVE FilterFiles(_, _, _, _)

\* mutant: the rule is resolved on the name of the source
RECURSIVE FilterFiles_OnSource(_, _, _, _)
FilterFiles_OnSource(rule, keep, input, res) ==
    IF input = <<>> THEN [input |-> res, err |-> NoError]
    ELSE LET name == FileNameOf(Head(input).source)
         IN  IF ~name.some THEN [input |-> <<>>, err |-> "CannotIdentifyFileName"]
             ELSE FilterFiles_OnSource(rule, keep, Tail(input),
                      IF Resolve(rule, name.v) = keep
                      THEN Append(res, Head(input)) ELSE res)

FilterFiles(rule, keep, input, res) ==
    IF input = <<>> THEN [input |-> res, err |-> NoError]
    ELSE LET name == FileNameOf(Head(input).destination)
         IN  IF ~name.some THEN [input |-> <<>>, err |-> "CannotIdentifyFileName"]
             ELSE FilterFiles(rule, keep, Tail(input),
                      IF Resolve(rule, name.v) = keep
                      THEN Append(res, Head(input)) ELSE res)

DirOpExecute(op, eng, input) ==
    CASE op.tag = "Sort" ->
            [eng |-> eng, input |-> SortBy(op.direction, input), err |-> NoError]
      [] op.tag = "Remove" ->
            LET r == FilterFiles(op.rule, FALSE, input, <<>>)
            IN  [eng |-> eng, input |-> r.input, err |-> r.err]
      [] op.tag = "IncludeOnly" ->
            LET r == FilterFiles(op.rule, TRUE, input, <<>>)
            IN  [eng |-> eng, input |-> r.input, err |-> r.err]
      [] op.tag = "OffsetLocalIndex" ->
            [eng |-> set_local_index(eng, op.offset), input |-> input, err |-> NoError]

-----------------------------------------------------------------------------
(* OperationEngine: process_dir, run_files, run_file.                     *)
(* A context c carries the engine (eng), the error raised so far (err),   *)
(* the number of the process_dir call (call) and the history (log).       *)

NoOperation == [tag |-> "none"]

Event(kind, c, origin, idx, op, err, files) ==
    [ev |-> kind, call |-> c.call, origin |-> origin, idx |-> idx, op |-> op,
     file |-> c.eng.current_file, li |-> c.eng.local_index,
     gi |-> c.eng.global_index, err |-> err, files |-> files]

Log(c, e) == [c EXCEPT !.log = Append(c.log, e)]

\* the state of process_dir after op.execute(self, &mut files) returned r:
\* the context and the file list
DirOpRan(c, origin, i, op, files, r) ==
    [c |-> Log([c EXCEPT !.eng = r.eng, !.err = r.err],
               Event("dir_op", c, origin, i, op, r.err, files)),
     files |-> r.input]

\* for op in ops { op.execute(self, &mut files)?; } from position i, on the
\* context s.c and the list s.files; the ? ends the loop once an operation
\* has left its error in the context
RECURSIVE RunDirOps(_, _, _, _)
RunDirOps(ops, i, origin, s) ==
    IF s.c.err # NoError \/ i > Len(ops) THEN s
    ELSE RunDirOps(ops, i + 1, origin,
                   DirOpRan(s.c, origin, i, ops[i], s.files,
                            DirOpExecute(ops[i], s.c.eng, s.files)))

\* the context after op.execute(self) returned r
FileOpRan(c, origin, i, op, r) ==
    Log([c EXCEPT !.eng = r.eng, !.err = r.err],
        Event("file_op", c, origin, i, op, r.err, <<>>))

\* for op in ops { op.execute(self)?; } from position i; the ? ends the
\* loop once an operation has left its error in the context
RECURSIVE RunFileOps(_, _, _, _)
RunFileOps(ops, i, origin, c) ==
    IF c.err # NoError \/ i > Len(ops) THEN c
    ELSE RunFileOps(ops, i + 1, origin,
                    FileOpRan(c, origin, i, ops[i], FileOpExecute(ops[i], c.eng)))

\* the two loops of run_file: over a clone of self.file_operations, then
\* over a clone of the current file's own operations
RunDefaultFileOps(c) == RunFileOps(c.eng.file_operations, 1, "default", c)
RunOwnFileOps(c) ==
    IF c.err # NoError THEN c ELSE RunFileOps(current_file(c.eng).ops, 1, "own", c)

\* the two counters of run_file, incremented once the file's operations are done
IncrementIndices(eng) ==
    [eng EXCEPT !.global_index = @ + 1, !.local_index = @ + 1]

\* run_file is entered (history)
FileStarted(c) == Log(c, Event("run_file", c, "", 0, NoOperation, NoError, <<>>))

\* the end of run_file, reached when no ? returned before it
FileDone(c) ==
    IF c.err # NoError THEN c
    ELSE LET c3 == [c EXCEPT !.eng = IncrementIndices(c.eng)]
         IN  Log(c3, Event("file_done", c3, "", 0, NoOperation, NoError, <<>>))

\* mutant: the file's own operations run before the engine's defaults
run_file_OwnFirst(c) == FileDone(RunDefaultFileOps(RunOwnFileOps(FileStarted(c))))

run_file(c) == FileDone(RunOwnFileOps(RunDefaultFileOps(FileStarted(c))))

\* self.current_file += 1, not reached when self.run_file()? returned
NextFile(c) == IF c.err # NoError THEN c ELSE [c EXCEPT !.eng.current_file = @ + 1]

\* mutant: the loop drops the ? and goes on to the next file after a failure
RECURSIVE RunFilesLoop_NoAbort(_)
RunFilesLoop_NoAbort(c) ==
    IF c.eng.current_file < Len(c.eng.files)
    THEN RunFilesLoop_NoAbort([run_file([c EXCEPT !.err = NoError])
                                   EXCEPT !.eng.current_file = @ + 1])
    ELSE c

\* while self.current_file < self.files.len() { self.run_file()?; self.current_file += 1; }
RECURSIVE RunFilesLoop(_)
RunFilesLoop(c) ==
    IF c.err = NoError /\ c.eng.current_file < Len(c.eng.files)
    THEN RunFilesLoop(NextFile(run_file(c)))
    ELSE c

\* self.files = files (history)
FilesSet(c, files) == Log(c, Event("run_files", c, "", 0, NoOperation, NoError, files))

\* mutant: run_files starts its loop at the first file of the list
run_files_FromTheFirst(c, files) ==
    RunFilesLoop(FilesSet([c EXCEPT !.eng.files = files, !.eng.current_file = 0], files))

\* run_files: self.files = files, then the loop from the cursor as it stands
run_files(c, files) == RunFilesLoop(FilesSet([c EXCEPT !.eng.files = files], files))

\* the default directory operations process_dir runs: std::mem::take leaves
\* the engine's list empty
TakeDirOperations(eng) ==
    [taken |-> eng.dir_operations, eng |-> [eng EXCEPT !.dir_operations = <<>>]]

\* mutant: process_dir forgets to reset local_index
ResetLocalIndex_Kept(eng) == eng

\* self.local_index = 0
ResetLocalIndex(eng) == [eng EXCEPT !.local_index = 0]

\* mutant: the error of a directory operation is dropped and the files
\* it left are run
process_dir_IgnoresDirOpError(c, dir) ==
    LET c0 == [c EXCEPT !.eng = ResetLocalIndex(c.eng)]
        t  == TakeDirOperations(c0.eng)
        c1 == Log([c0 EXCEPT !.eng = t.eng],
                  Event("process_dir", c0, "", 0, NoOperation, NoError, dir.contents))
        s  == RunDirOps(dir.dir_ops, 1, "own",
                        RunDirOps(t.taken, 1, "default", [c |-> c1, files |-> dir.contents]))
    IN  run_files([s.c EXCEPT !.err = NoError], s.files)

process_dir(c, dir) ==
    LET c0 == [c EXCEPT !.eng = ResetLocalIndex(c.eng)]
        t  == TakeDirOperations(c0.eng)
        c1 == Log([c0 EXCEPT !.eng = t.eng],
                  Event("process_dir", c0, "", 0, NoOperation, NoError, dir.contents))
        s  == RunDirOps(dir.dir_ops, 1, "own",
                        RunDirOps(t.taken, 1, "default", [c |-> c1, files |-> dir.contents]))
    IN  IF s.c.err # NoError THEN s.c ELSE run_files(s.c, s.files)

\* mutant: process_file leaves local_index as the calls before left it
process_file_KeepsLocalIndex(c, file) ==
    LET c0 == [c EXCEPT !.eng.files = <<file>>, !.eng.current_file = 0]
    IN  run_file(Log(c0, Event("process_file", c0, "", 0, NoOperation, NoError, <<file>>)))

\* OperationEngine::process_file
process_file(c, file) ==
    LET c0 == [c EXCEPT !.eng.local_index = 0, !.eng.files = <<file>>,
                        !.eng.current_file = 0]
    IN  run_file(Log(c0, Event("process_file", c0, "", 0, NoOperation, NoError, <<file>>)))

\* OperationEngine::into_files
into_files(eng) == eng.files

-----------------------------------------------------------------------------
(* RenameTree: the commit step *)

RenameResult(source, destination) == [source |-> source, destination |-> destination]

\* fs is the file system as the commit step changes it: the renames
\* performed (renamed) and the invocations of fs::rename (calls)

\* mutant: dry_run is handed the real rename
dry_rename_file_Renames(source, destination, fs) ==
    [err |-> NoError, res |-> RenameResult(source, destination),
     fs |-> [fs EXCEPT !.calls = Append(@, source),
                       !.renamed = Append(@, <<source, destination>>)]]

\* RenameTree::dry_rename_file: echoes the pair, no I/O
dry_rename_file(source, destination, fs) ==
    [err |-> NoError, res |-> RenameResult(source, destination), fs |-> fs]

\* mutant: a failed rename undoes the renames made before it
rename_file_RollsBack(source, destination, fails, fs) ==
    LET called == [fs EXCEPT !.calls = Append(@, source)]
    IN  IF fails THEN [err |-> "RenameError", res |-> None,
                       fs |-> [called EXCEPT !.renamed = <<>>]]
        ELSE [err |-> NoError, res |-> RenameResult(source, destination),
              fs |-> [called EXCEPT !.renamed = Append(@, <<source, destination>>)]]

\* RenameTree::rename_file: fs::rename, which the file system may refuse (fails)
rename_file(source, destination, fails, fs) ==
    LET called == [fs EXCEPT !.calls = Append(@, source)]
    IN  IF fails THEN [err |-> "RenameError", res |-> None, fs |-> called]
        ELSE [err |-> NoError, res |-> RenameResult(source, destination),
              fs |-> [called EXCEPT !.renamed = Append(@, <<source, destination>>)]]

\* the rename function run and dry_run hand to run_with_fn
RenamePrimitive(rename, source, destination, fails, fs) ==
    IF rename = "rename_file" THEN rename_file(source, destination, fails, fs)
    ELSE dry_rename_file(source, destination, fs)

\* mutant: the loop ignores what file_set.insert returns
RECURSIVE RunWithFnLoop_NoDuplicateCheck(_, _, _, _, _, _, _)
RunWithFnLoop_NoDuplicateCheck(files, i, file_set, results, rename, fail_at, fs) ==
    IF i > Len(files) THEN [err |-> NoError, results |-> results, fs |-> fs]
    ELSE LET r == RenamePrimitive(rename, files[i].source, files[i].destination,
                                  i = fail_at, fs)
         IN  IF r.err # NoError
             THEN [err |-> r.err, results |-> <<>>, fs |-> r.fs]
             ELSE RunWithFnLoop_NoDuplicateCheck(files, i + 1,
                      file_set \cup {files[i].source}, Append(results, r.res),
                      rename, fail_at, r.fs)

\* the loop of run_with_fn over self.files, from position i
RECURSIVE RunWithFnLoop(_, _, _, _, _, _, _)
RunWithFnLoop(files, i, file_set, results, rename, fail_at, fs) ==
    IF i > Len(files) THEN [err |-> NoError, results |-> results, fs |-> fs]
    ELSE IF files[i].source \notin file_set
    THEN LET r == RenamePrimitive(rename, files[i].source, files[i].destination,
                                  i = fail_at, fs)
         IN  IF r.err # NoError
             THEN [err |-> r.err, results |-> <<>>, fs |-> r.fs]
             ELSE RunWithFnLoop(files, i + 1, file_set \cup {files[i].source},
                                Append(results, r.res), rename, fail_at, r.fs)
    ELSE [err |-> "DuplicateFileError", results |-> <<>>, fs |-> fs]

\* mutant: the sources are checked for duplicates before the first rename
run_with_fn_DuplicatesUpFront(t, rename, fail_at, fs) ==
    IF \E i, j \in 1..Len(t.files) : i < j /\ t.files[i].source = t.files[j].source
    THEN [err |-> "DuplicateFileError", results |-> <<>>, fs |-> fs]
    ELSE RunWithFnLoop(t.files, 1, t.file_set, <<>>, rename, fail_at, fs)

run_with_fn(t, rename, fail_at, fs) ==
    RunWithFnLoop(t.files, 1, t.file_set, <<>>, rename, fail_at, fs)

\* impl From<OperationEngine> for RenameTree
TreeFromEngine(eng) == [files |-> into_files(eng), file_set |-> {}]

-----------------------------------------------------------------------------
(* The inputs of the model *)

NameA == <<"a", ".", "x">>
NameB == <<"b", ".", "y">>
FileNames == {NameA, NameB}

DirP == <<"p">>
DirQ == <<"q">>
DirPaths == {DirP, DirQ}

\* what read_dir / the walker may yield for a directory: up to MaxFiles
\* canonical file names in any order; a name can come twice (two entries
\* that canonicalize to the same file)
Listings == UNION {[1..n -> FileNames] : n \in 0..MaxFiles}

\* file operations of the directories of the model
ReadsLocalIndex == SetNameOperation(CombineExpr(VariableExpr("local_index"), FileNameExpr))

ReadsV == IfOperation(Contains(<<"b">>), NoOpOperation(VariableExpr("v")),
                      Some(SetNameOperation(VariableExpr("global_index"))))

\* the directories handed to RTBuilder::with_directory
DirMenu ==
    { DirNewWithOps(DirP,
          <<SortOperation("Descending"), OffsetLocalIndexOperation(2)>>,
          <<ReadsV, ReadsLocalIndex>>),
      DirNewWithOps(DirQ,
          <<IncludeOnlyOperation(Or(Contains(<<".">>), EndsWith(<<"y">>))),
            RemoveOperation(And(BeginsWith(<<"a">>), Not(Equals(NameB)))),
            SortOperation("Ascending")>>,
          <<SetNameOperation(VariableExpr("global_index"))>>) }

\* the slices handed to RTBuilder::with_dir_ops and with_file_ops
DefaultDirOpsMenu == { <<OffsetLocalIndexOperation(1)>> }

DefaultFileOpsMenu ==
    { <<NoOpOperation(AssignVariableExpr("v", FileNameExpr)),
        SetNameOperation(CombineExpr(ConstantExpr(<<"f">>), FileNameExpr))>> }

NotRun == [err |-> "NotRun", results |-> <<>>]

\* no call made yet on an engine the caller holds
NoCall == [n |-> 0, op |-> "none"]

-----------------------------------------------------------------------------
(* Initial state: RTBuilder::new(), over any file system *)

Init ==
    /\ fsys \in [DirPaths -> Listings]
    /\ builder = [directories |-> <<>>, files |-> <<>>, dir_ops |-> <<>>, file_ops |-> <<>>]
    /\ engine = EngineNew(<<>>, <<>>)
    /\ next_dir = 1
    /\ tree = [files |-> <<>>, file_set |-> {}]
    /\ pc = "builder"
    /\ error = NoError
    /\ run_result = NotRun
    /\ dry_result = NotRun
    /\ renamed = <<>>
    /\ rename_calls = <<>>
    /\ rename_fail_at = 0
    /\ trace = <<>>
    /\ last_call = NoCall

-----------------------------------------------------------------------------
(* Actions *)

\* RTBuilder::with_directory
WithDirectory(dir) ==
    /\ pc = "builder"
    /\ Len(builder.directories) < MaxDirs
    /\ builder' = [builder EXCEPT !.directories = Append(@, dir)]
    /\ UNCHANGED <<last_call, fsys, engine, next_dir, tree, pc, error, run_result, dry_result,
                   renamed, rename_calls, rename_fail_at, trace>>

\* RTBuilder::with_dir_ops (each default list is supplied by one call)
WithDirOps(ops) ==
    /\ pc = "builder"
    /\ builder.dir_ops = <<>>
    /\ builder' = [builder EXCEPT !.dir_ops = @ \o ops]
    /\ UNCHANGED <<last_call, fsys, engine, next_dir, tree, pc, error, run_result, dry_result,
                   renamed, rename_calls, rename_fail_at, trace>>

\* RTBuilder::with_file_ops (each default list is supplied by one call)
WithFileOps(ops) ==
    /\ pc = "builder"
    /\ builder.file_ops = <<>>
    /\ builder' = [builder EXCEPT !.file_ops = @ \o ops]
    /\ UNCHANGED <<last_call, fsys, engine, next_dir, tree, pc, error, run_result, dry_result,
                   renamed, rename_calls, rename_fail_at, trace>>

\* RTBuilder::build_tree, up to the loop of build_from_builder
BuildTree ==
    /\ pc = "builder"
    /\ engine' = EngineNew(builder.dir_ops, builder.file_ops)
    /\ next_dir' = 1
    /\ pc' = "building"
    /\ UNCHANGED <<last_call, fsys, builder, tree, error, run_result, dry_result,
                   renamed, rename_calls, rename_fail_at, trace>>

\* one iteration of the loop of build_from_builder: dir.build()? succeeds
\* and op_engine.process_dir(dir)? runs
ProcessDir ==
    /\ pc = "building"
    /\ next_dir <= Len(builder.directories)
    /\ \E c \in {process_dir([eng |-> engine, err |-> NoError, call |-> next_dir,
                              log |-> trace],
                             DirBuild(builder.directories[next_dir],
                                      fsys[builder.directories[next_dir].path]))} :
           /\ engine' = c.eng
           /\ trace' = c.log
           /\ error' = c.err
           /\ IF c.err = NoError
              THEN pc' = "building" /\ next_dir' = next_dir + 1
              ELSE pc' = "error" /\ next_dir' = next_dir
    /\ UNCHANGED <<last_call, fsys, builder, tree, run_result, dry_result, renamed, rename_calls,
                   rename_fail_at>>

\* one iteration of the loop of build_from_builder: dir.build()? fails
BuildDirFails(e) ==
    /\ pc = "building"
    /\ next_dir <= Len(builder.directories)
    /\ pc' = "error"
    /\ error' = e
    /\ UNCHANGED <<last_call, fsys, builder, engine, next_dir, tree, run_result, dry_result,
                   renamed, rename_calls, rename_fail_at, trace>>

\* File::validate: Path::is_file on the source
Validate(f, fs) ==
    IF /\ Len(f.source) = 2 /\ f.source[1] \in DOMAIN fs
       /\ \E i \in 1..Len(fs[f.source[1]]) : fs[f.source[1]][i] = f.source[2]
    THEN NoError ELSE "NotFile"

\* the end of build_from_builder: every file of builder.files is
\* validated, nothing else is done with it, and the engine becomes the tree
FinishBuild ==
    /\ pc = "building"
    /\ next_dir > Len(builder.directories)
    /\ IF \A i \in 1..Len(builder.files) : Validate(builder.files[i], fsys) = NoError
       THEN tree' = TreeFromEngine(engine) /\ pc' = "tree" /\ error' = error
       ELSE tree' = tree /\ pc' = "error" /\ error' = "NotFile"
    /\ UNCHANGED <<last_call, fsys, builder, engine, next_dir, run_result, dry_result,
                   renamed, rename_calls, rename_fail_at, trace>>

\* RenameTree::run on the tree; fail_at is the position whose fs::rename
\* the file system refuses (0: none)
Run(fail_at) ==
    /\ pc = "tree"
    /\ run_result = NotRun
    /\ LET r == run_with_fn(tree, "rename_file", fail_at,
                             [renamed |-> renamed, calls |-> rename_calls])
       IN  /\ run_result' = [err |-> r.err, results |-> r.results]
           /\ renamed' = r.fs.renamed
           /\ rename_calls' = r.fs.calls
    /\ rename_fail_at' = fail_at
    /\ UNCHANGED <<last_call, fsys, builder, engine, next_dir, tree, pc, error, dry_result, trace>>

\* RenameTree::dry_run on (a clone of) the tree
DryRun ==
    /\ pc = "tree"
    /\ dry_result = NotRun
    /\ LET r == run_with_fn(tree, "dry_rename_file", 0,
                             [renamed |-> renamed, calls |-> rename_calls])
       IN  /\ dry_result' = [err |-> r.err, results |-> r.results]
           /\ renamed' = r.fs.renamed
           /\ rename_calls' = r.fs.calls
    /\ UNCHANGED <<last_call, fsys, builder, engine, next_dir, tree, pc, error, run_result,
                   rename_fail_at, trace>>

Next ==
    \/ \E dir \in DirMenu : WithDirectory(dir)
    \/ \E ops \in DefaultDirOpsMenu : WithDirOps(ops)
    \/ \E ops \in DefaultFileOpsMenu : WithFileOps(ops)
    \/ BuildTree
    \/ ProcessDir
    \/ \E e \in {"NotDirectory", "ReadDirError"} : BuildDirFails(e)
    \/ FinishBuild
    \/ \E fail_at \in 0..Len(tree.files) : Run(fail_at)
    \/ DryRun

Spec == Init /\ [][Next]_vars

-----------------------------------------------------------------------------
(* An RTBuilder that holds standalone files.  RTBuilder.files is private    *)
(* and no method of RTBuilder pushes to it, so such a builder is one put    *)
(* together inside the crate; build_tree treats it as below.                *)

StandaloneMenu == { <<FileNewWithOps(<<DirP, NameA>>, <<ReadsLocalIndex>>)>> }

StandaloneInit ==
    /\ fsys \in [DirPaths -> Listings]
    /\ \E files \in StandaloneMenu :
           builder = [directories |-> <<>>, files |-> files, dir_ops |-> <<>>,
                      file_ops |-> <<>>]
    /\ engine = EngineNew(<<>>, <<>>)
    /\ next_dir = 1
    /\ tree = [files |-> <<>>, file_set |-> {}]
    /\ pc = "builder"
    /\ error = NoError
    /\ run_result = NotRun
    /\ dry_result = NotRun
    /\ renamed = <<>>
    /\ rename_calls = <<>>
    /\ rename_fail_at = 0
    /\ trace = <<>>
    /\ last_call = NoCall

StandaloneSpec == StandaloneInit /\ [][Next]_vars

-----------------------------------------------------------------------------
(* A caller that holds an OperationEngine itself: OperationEngine::new,    *)
(* then process_dir, process_file and Expression::execute in any order,    *)
(* and the engine turned into a RenameTree that is dry-run.                *)

\* the files handed to process_file
EngineFileMenu ==
    { FileNewWithOps(<<DirP, NameA>>, <<NoOpOperation(FileExtensionExpr)>>),
      FileNewWithOps(<<DirQ, NameB>>,
                     <<SetStemOperation(VariableExpr("local_index")),
                       SetExtensionOperation(ConstantExpr(<<"x">>))>>),
      FileNewWithOps(<<DirP, NameB>>, <<ReadsV>>) }

\* the If expressions executed on the engine: conditions that hold on the
\* path but not on the name, on some names, on no name
IfConditionMenu == {Contains(DirP), BeginsWith(<<"a">>), Equals(NameB)}

EngineExprMenu ==
    { IfExpr(cond, ConstantExpr(<<"a">>), else_expr) :
          cond \in IfConditionMenu, else_expr \in {None, Some(ConstantExpr(<<"b">>))} }

EngineInit ==
    /\ fsys \in {[d \in DirPaths |-> l] : l \in Listings}
    /\ builder = [directories |-> <<>>, files |-> <<>>, dir_ops |-> <<>>, file_ops |-> <<>>]
    /\ engine \in {EngineNew(<<>>, <<>>)}
                  \cup {EngineNew(d, f) : d \in DefaultDirOpsMenu, f \in DefaultFileOpsMenu}
    /\ next_dir = 1
    /\ tree = [files |-> <<>>, file_set |-> {}]
    /\ pc = "engine"
    /\ error = NoError
    /\ run_result = NotRun
    /\ dry_result = NotRun
    /\ renamed = <<>>
    /\ rename_calls = <<>>
    /\ rename_fail_at = 0
    /\ trace = <<>>
    /\ last_call = NoCall

\* the context of the next call on the engine
NextCall == [eng |-> engine, err |-> NoError, call |-> last_call.n + 1, log |-> trace]

\* engine.process_dir(dir) on a Dir whose contents were built as
\* build_from_builder builds them (an empty listing is also the Dir that was
\* never built)
EngineProcessDir(dir) ==
    /\ last_call.n < MaxCalls
    /\ \E c \in {process_dir(NextCall, DirBuild(dir, fsys[dir.path]))} :
           /\ engine' = c.eng
           /\ trace' = c.log
           /\ error' = c.err
           /\ last_call' = [n |-> last_call.n + 1, op |-> "process_dir", arg |-> dir,
                            before |-> engine, res |-> [err |-> c.err, val |-> None]]
    /\ UNCHANGED <<fsys, builder, next_dir, tree, pc, run_result, dry_result, renamed,
                   rename_calls, rename_fail_at>>

\* engine.process_file(file)
EngineProcessFile(file) ==
    /\ last_call.n < MaxCalls
    /\ \E c \in {process_file(NextCall, file)} :
           /\ engine' = c.eng
           /\ trace' = c.log
           /\ error' = c.err
           /\ last_call' = [n |-> last_call.n + 1, op |-> "process_file", arg |-> file,
                            before |-> engine, res |-> [err |-> c.err, val |-> None]]
    /\ UNCHANGED <<fsys, builder, next_dir, tree, pc, run_result, dry_result, renamed,
                   rename_calls, rename_fail_at>>

\* expr.execute(&mut engine)
Execute(expr) ==
    /\ last_call.n < MaxCalls
    /\ \E r \in {ExprExecute(expr, engine)} :
           /\ engine' = r.eng
           /\ error' = r.err
           /\ last_call' = [n |-> last_call.n + 1, op |-> "execute", arg |-> expr,
                            before |-> engine, res |-> [err |-> r.err, val |-> r.val]]
    /\ UNCHANGED <<fsys, builder, next_dir, tree, pc, run_result, dry_result, renamed,
                   rename_calls, rename_fail_at, trace>>

\* RenameTree::from(engine.clone()).dry_run()
EngineDryRun ==
    /\ last_call.n < MaxCalls
    /\ \E r \in {run_with_fn(TreeFromEngine(engine), "dry_rename_file", 0,
                               [renamed |-> renamed, calls |-> rename_calls])} :
           /\ dry_result' = [err |-> r.err, results |-> r.results]
           /\ renamed' = r.fs.renamed
           /\ rename_calls' = r.fs.calls
    /\ last_call' = [n |-> last_call.n + 1, op |-> "dry_run", arg |-> None,
                     before |-> engine, res |-> [err |-> NoError, val |-> None]]
    /\ UNCHANGED <<fsys, builder, engine, next_dir, tree, pc, error, run_result,
                   rename_fail_at, trace>>

EngineNext ==
    \/ \E dir \in DirMenu : EngineProcessDir(dir)
    \/ \E file \in EngineFileMenu : EngineProcessFile(file)
    \/ \E expr \in EngineExprMenu :
           \* current_file() indexes self.files[self.current_file]
           /\ engine.current_file < Len(engine.files)
           /\ Execute(expr)
    \/ EngineDryRun

EngineSpec == EngineInit /\ [][EngineNext]_vars

-----------------------------------------------------------------------------
(* Expressions evaluated on an engine that holds no file, as the tests of *)
(* expressions.rs evaluate them: expr.execute(&mut OperationEngine::new(  *)
(* Vec::new(), Vec::new())).                                              *)

MaxStrLen == 3
MaxNeedleLen == 2

Alphabet == {"a", "b"}

\* the strings over Alphabet of n bytes at most
Strs(n) == UNION {[1..k -> Alphabet] : k \in 0..n}

\* what a replacement or an insertion puts in
Texts == {<<>>, <<"b">>, <<"b", "a">>}

Selections == {"First", "Last", "All"}

\* the strings of tests::test_replace_first_1 .. tests::test_right_2
TestMessageHello ==
    <<"t", "e", "s", "t", " ", "m", "e", "s", "s", "a", "g", "e", " ",
      "h", "e", "l", "l", "o">>
TestMessageMessageHello ==
    <<"t", "e", "s", "t", " ", "m", "e", "s", "s", "a", "g", "e", " ",
      "m", "e", "s", "s", "a", "g", "e", " ", "h", "e", "l", "l", "o">>
Message == <<"m", "e", "s", "s", "a", "g", "e">>
Yo == <<"y", "o">>

\* an expression that evaluates to None on every engine: the marker "b"
\* does not occur in "a"
AbsentExpr == InsertExpr(Before(<<"b">>), ConstantExpr(<<"a">>), ConstantExpr(<<>>))

\* an expression that fails on the engine of the tests: "w" is not defined
\* unless an assignment defined it
FailingExpr == VariableExpr("w")

ReplaceMenu ==
    {ReplaceExpr(ConstantExpr(c), sel, ConstantExpr(m), ConstantExpr(t)) :
        c \in Strs(MaxStrLen), sel \in Selections, m \in Strs(MaxNeedleLen), t \in Texts}
    \cup {ReplaceExpr(ConstantExpr(c), sel, ConstantExpr(Message), ConstantExpr(Yo)) :
            c \in {TestMessageHello, TestMessageMessageHello}, sel \in Selections}

\* operands that are absent, fail, or write a variable when evaluated
OperandsMenu ==
    LET contents == {ConstantExpr(<<"a", "b">>), AbsentExpr, FailingExpr,
                     AssignVariableExpr("v", ConstantExpr(<<"a", "b">>))}
        matches == {AssignVariableExpr("v", ConstantExpr(<<"a">>)),
                    AssignVariableExpr("v", AbsentExpr), FailingExpr}
        replacements == {AssignVariableExpr("w", ConstantExpr(<<"b">>)), AbsentExpr}
    IN  {ReplaceExpr(c, "First", m, t) : c \in contents, m \in matches, t \in replacements}

Positions ==
    {Index(i) : i \in 0..(MaxStrLen + 1)} \cup {Start, End}
    \cup {Before(f) : f \in Strs(MaxNeedleLen)} \cup {After(f) : f \in Strs(MaxNeedleLen)}

InsertMenu ==
    {InsertExpr(pos, ConstantExpr(b), ConstantExpr(t)) :
        pos \in Positions, b \in Strs(MaxStrLen), t \in Texts}

LeftRightMenu ==
    {LeftExpr(ConstantExpr(i), ConstantExpr(m), inc) :
        i \in Strs(MaxStrLen), m \in Strs(MaxNeedleLen), inc \in BOOLEAN}
    \cup {RightExpr(ConstantExpr(i), ConstantExpr(m), inc) :
        i \in Strs(MaxStrLen), m \in Strs(MaxNeedleLen), inc \in BOOLEAN}
    \cup {LeftExpr(ConstantExpr(TestMessageMessageHello), ConstantExpr(Message), inc) :
        inc \in BOOLEAN}
    \cup {RightExpr(ConstantExpr(TestMessageMessageHello), ConstantExpr(Message), inc) :
        inc \in BOOLEAN}
    \cup {LeftExpr(i, m, inc) :
        i \in {AbsentExpr, ConstantExpr(<<"a", "b">>)},
        m \in {AbsentExpr, AssignVariableExpr("v", ConstantExpr(<<"b">>))},
        inc \in BOOLEAN}
    \cup {RightExpr(i, m, inc) :
        i \in {AbsentExpr, ConstantExpr(<<"a", "b">>)},
        m \in {AbsentExpr, AssignVariableExpr("v", ConstantExpr(<<"b">>))},
        inc \in BOOLEAN}

AssignMenu ==
    {AssignVariableExpr(var, value) :
        var \in {"v", "w"},
        value \in {ConstantExpr(<<"a">>), ConstantExpr(<<"b">>), AbsentExpr, FailingExpr}}

ExprMenu == ReplaceMenu \cup OperandsMenu \cup InsertMenu \cup LeftRightMenu \cup AssignMenu

ExprInit ==
    /\ fsys = [d \in DirPaths |-> <<>>]
    /\ builder = [directories |-> <<>>, files |-> <<>>, dir_ops |-> <<>>, file_ops |-> <<>>]
    /\ engine = EngineNew(<<>>, <<>>)
    /\ next_dir = 1
    /\ tree = [files |-> <<>>, file_set |-> {}]
    /\ pc = "expr"
    /\ error = NoError
    /\ run_result = NotRun
    /\ dry_result = NotRun
    /\ renamed = <<>>
    /\ rename_calls = <<>>
    /\ rename_fail_at = 0
    /\ trace = <<>>
    /\ last_call = NoCall

\* engine.set_variable(var_name, value) from the crate, before the
\* expression is evaluated
SetVariable(var_name, value) ==
    /\ last_call.n = 0
    /\ engine' = set_variable(engine, var_name, value)
    /\ UNCHANGED <<fsys, builder, next_dir, tree, pc, error, run_result, dry_result,
                   renamed, rename_calls, rename_fail_at, trace, last_call>>

\* the Strings of up to n characters over "a", "b" and "\u00e9", the last
\* of which is the two bytes C3 A9 in UTF-8
RECURSIVE Utf8Strs(_)
Utf8Strs(n) ==
    IF n = 0 THEN {<<>>}
    ELSE {s \o c : s \in Utf8Strs(n - 1), c \in {<<>>, <<"a">>, <<"b">>, <<"C3", "A9">>}}

\* the rules resolved: each kind on every needle, and the connectives
RuleMenu ==
    LET atoms == UNION {{Equals(s), Contains(s), BeginsWith(s), EndsWith(s)} :
                           s \in Utf8Strs(MaxNeedleLen)}
        few == {Equals(<<"a">>), Contains(<<"b">>), BeginsWith(<<"a">>), EndsWith(<<"b">>)}
    IN  atoms \cup {Not(r) : r \in atoms}
        \cup {And(r1, r2) : r1 \in few, r2 \in few}
        \cup {Or(r1, r2) : r1 \in few, r2 \in few}
        \cup {And(r1, Not(r2)) : r1 \in few, r2 \in few}
        \cup {Or(r1, Not(r2)) : r1 \in few, r2 \in few}

\* rule.resolve(&input)
ResolveRule(rule, input) ==
    /\ last_call.n = 0
    /\ engine = EngineNew(<<>>, <<>>)
    /\ last_call' = [n |-> 1, op |-> "resolve", arg |-> rule, input |-> input,
                     before |-> engine,
                     res |-> IF ResolvePanics(rule, input)
                             THEN [err |-> "Panic", val |-> None]
                             ELSE [err |-> NoError, val |-> None,
                                   holds |-> Resolve(rule, input)]]
    /\ error' = IF ResolvePanics(rule, input) THEN "Panic" ELSE NoError
    /\ UNCHANGED <<fsys, builder, engine, next_dir, tree, pc, run_result, dry_result,
                   renamed, rename_calls, rename_fail_at, trace>>

ExprNext ==
    \/ \E rule \in RuleMenu : \E input \in Utf8Strs(MaxStrLen) : ResolveRule(rule, input)
    \/ \E value \in {<<"a">>, <<"b">>} : SetVariable("v", value)
    \/ \E expr \in ExprMenu :
           \* one expression on each engine
           /\ last_call.n = 0
           /\ Execute(expr)

ExprSpec == ExprInit /\ [][ExprNext]_vars

-----------------------------------------------------------------------------
(* A caller that also executes operations itself, through the public      *)
(* traits DirOperation, FileOperation and Expression, on the engine and   *)
(* on the records into_files returned.                                    *)

\* a file whose own operation leaves a destination without a name
NamelessFile ==
    FileNewWithOps(<<DirQ, NameA>>, <<SetNameOperation(ConstantExpr(ParentDir))>>)

\* the directory operations a caller executes itself: rules that hold on
\* the directory but on no name, on the name a file was created with, on
\* names an operation gave; and sorts in both directions
CallerDirOpsMenu ==
    { <<RemoveOperation(Contains(DirP))>>,
      <<IncludeOnlyOperation(Contains(DirP))>>,
      <<RemoveOperation(Equals(NameB))>>,
      <<IncludeOnlyOperation(Or(BeginsWith(<<"f">>), EndsWith(<<"x">>)))>>,
      <<SortOperation("Ascending")>>,
      <<SortOperation("Descending")>>,
      <<SortOperation("Descending"), SortOperation("Ascending")>> }

\* let mut files = engine.clone().into_files();
\* for op in ops { op.execute(&mut engine, &mut files)?; }
EngineDirOps(ops) ==
    /\ last_call.n < MaxCalls
    \* sort_unstable_by may order records of equal destination either way:
    \* the records a sort is given differ in their destinations, or are equal
    /\ (\E i \in 1..Len(ops) : ops[i].tag = "Sort") =>
           \A i, j \in 1..Len(engine.files) :
               engine.files[i].destination = engine.files[j].destination =>
                   engine.files[i] = engine.files[j]
    /\ \E s \in {RunDirOps(ops, 1, "caller", [c |-> NextCall, files |-> into_files(engine)])} :
           /\ engine' = s.c.eng
           /\ trace' = s.c.log
           /\ error' = s.c.err
           /\ last_call' = [n |-> last_call.n + 1, op |-> "dir_ops", arg |-> ops,
                            before |-> engine,
                            res |-> [err |-> s.c.err, val |-> s.files]]
    /\ UNCHANGED <<fsys, builder, next_dir, tree, pc, run_result, dry_result, renamed,
                   rename_calls, rename_fail_at>>

\* engine.process_dir(dir) on a Dir whose contents are the records the
\* engine held (Dir.contents is pub(crate))
EngineProcessHeld(dir) ==
    /\ last_call.n < MaxCalls
    /\ engine.files # <<>>
    /\ \E c \in {process_dir(NextCall, [dir EXCEPT !.contents = into_files(engine),
                                                   !.processed = TRUE])} :
           /\ engine' = c.eng
           /\ trace' = c.log
           /\ error' = c.err
           /\ last_call' = [n |-> last_call.n + 1, op |-> "process_held", arg |-> dir,
                            before |-> engine, res |-> [err |-> c.err, val |-> None]]
    /\ UNCHANGED <<fsys, builder, next_dir, tree, pc, run_result, dry_result, renamed,
                   rename_calls, rename_fail_at>>

\* expressions that read the current file, of every kind of node
CallerExprMenu ==
    { FileNameExpr,
      FileExtensionExpr,
      CombineExpr(VariableExpr("local_index"), FileNameExpr),
      InsertExpr(End, FileNameExpr, FileExtensionExpr),
      ReplaceExpr(FileNameExpr, "All", ConstantExpr(<<".">>), VariableExpr("global_index")),
      LeftExpr(FileNameExpr, ConstantExpr(<<".">>), FALSE),
      RightExpr(FileNameExpr, VariableExpr("v"), TRUE),
      IfExpr(BeginsWith(<<"a">>), FileNameExpr, Some(FileExtensionExpr)),
      IfExpr(Contains(<<".">>), AssignVariableExpr("w", FileNameExpr), None),
      AssignVariableExpr("v", FileNameExpr),
      ReplaceExpr(AssignVariableExpr("v", FileExtensionExpr), "First", AbsentExpr,
                  AssignVariableExpr("w", ConstantExpr(<<"b">>))),
      CombineExpr(AssignVariableExpr("global_index", ConstantExpr(<<"b">>)),
                  VariableExpr("global_index")) }

\* expressions that read and write variables only
VariableExprMenu ==
    { VariableExpr("global_index"), VariableExpr("local_index"), VariableExpr("v"),
      AssignVariableExpr("global_index", ConstantExpr(<<"b">>)),
      AssignVariableExpr("local_index", ConstantExpr(<<"b">>)) }

\* the operations a caller executes itself on the current file: each of
\* the three that write the destination, on an absent value and on values
CallerFileOpsMenu ==
    LET values == {AbsentExpr, ConstantExpr(<<"b">>), ConstantExpr(<<"b", ".", "y">>),
                   FileExtensionExpr}
    IN  {SetNameOperation(x) : x \in values}
        \cup {SetStemOperation(x) : x \in values}
        \cup {SetExtensionOperation(x) : x \in values}

\* op.execute(&mut engine)
EngineFileOp(op) ==
    /\ last_call.n < MaxCalls
    /\ engine.current_file < Len(engine.files)
    /\ \E r \in {FileOpExecute(op, engine)} :
           /\ engine' = r.eng
           /\ error' = r.err
           /\ last_call' = [n |-> last_call.n + 1, op |-> "file_op", arg |-> op,
                            before |-> engine,
                            res |-> [err |-> r.err, val |-> None, changed |-> r.changed]]
    /\ UNCHANGED <<fsys, builder, next_dir, tree, pc, run_result, dry_result, renamed,
                   rename_calls, rename_fail_at, trace>>

CallerNext ==
    \/ EngineNext
    \/ \E op \in CallerFileOpsMenu : EngineFileOp(op)
    \/ \E expr \in CallerExprMenu :
           /\ engine.current_file < Len(engine.files)
           /\ Execute(expr)
    \/ \E expr \in VariableExprMenu : Execute(expr)
    \/ EngineProcessFile(NamelessFile)
    \/ \E ops \in CallerDirOpsMenu : EngineDirOps(ops)
    \/ \E dir \in DirMenu : EngineProcessHeld(dir)

CallerSpec == EngineInit /\ [][CallerNext]_vars

-----------------------------------------------------------------------------
(* Reading the history *)

\* the events of one kind that process_dir call k logged, in order
EventsOf(k, kind) == SelectSeq(trace, LAMBDA e : e.call = k /\ e.ev = kind)

\* the events of one kind and origin ("default" or "own") of call k
OpEventsOf(k, kind, origin) ==
    SelectSeq(trace, LAMBDA e : e.call = k /\ e.ev = kind /\ e.origin = origin)

\* the process_dir calls that returned Ok
CompletedCalls == 1..(next_dir - 1)

\* the calls whose directory operations all ran
CallsWithFiles == {k \in 1..Len(builder.directories) : EventsOf(k, "run_files") # <<>>}

\* the file list of call k as its directory operations left it
Remaining(k) == EventsOf(k, "run_files")[1].files

RECURSIVE SumRemaining(_)
SumRemaining(k) == IF k = 0 THEN 0 ELSE Len(Remaining(k)) + SumRemaining(k - 1)

-----------------------------------------------------------------------------
(* C1: for every directory processed, also by the second and later        *)
(* process_dir calls, each file that remains after the directory          *)
(* operations is run through the file operations exactly once, in list    *)
(* order, starting from the first file of the list.                       *)
C1_EveryRemainingFileRunOnce ==
    \A k \in CompletedCalls :
        LET runs == EventsOf(k, "run_file")
        IN  /\ Len(runs) = Len(Remaining(k))
            /\ \A i \in 1..Len(runs) : runs[i].file = i - 1
            /\ Len(EventsOf(k, "file_done")) = Len(Remaining(k))

(* C2: the commit step yields exactly one (source, destination) pair for  *)
(* every file that remained after the directory operations in any of the  *)
(* directories D1..Dn; an earlier directory's files are not lost.         *)
PairsCoverAllDirectories(result) ==
    /\ Len(result.results) = SumRemaining(Len(builder.directories))
    /\ \A k \in 1..Len(builder.directories) :
          \A i \in 1..Len(Remaining(k)) :
              \E j \in 1..Len(result.results) :
                  result.results[j].source = Remaining(k)[i].source

C2_OnePairPerRemainingFile ==
    /\ dry_result.err = NoError => PairsCoverAllDirectories(dry_result)
    /\ run_result.err = NoError => PairsCoverAllDirectories(run_result)

(* C3: on the k-th process_dir call, for every k, each default directory  *)
(* operation of the engine is executed, in order, on the directory's file *)
(* list before the directory's own directory operations.                  *)
C3_DefaultDirOpsOnEveryCall ==
    \A k \in CallsWithFiles :
        LET defaults == OpEventsOf(k, "dir_op", "default")
        IN  /\ Len(defaults) = Len(builder.dir_ops)
            /\ \A i \in 1..Len(defaults) : defaults[i].op = builder.dir_ops[i]

(* C4: after the engine processed any sequence of directories without     *)
(* error, global_index equals the total number of files that remained in  *)
(* those directories' lists after their directory operations.             *)
C4_GlobalIndexCountsRemainingFiles ==
    pc \in {"building", "tree"} => engine.global_index = SumRemaining(next_dir - 1)

-----------------------------------------------------------------------------
(* C5: local_index is reset to 0 at the start of each directory's         *)
(* processing, whatever OffsetLocalIndex an earlier directory issued;     *)
(* within a directory the k-th file processed (k from 0) reads            *)
(* local_index = n + k, where n is the offset of the last                 *)
(* OffsetLocalIndex executed for the directory, 0 if there is none.       *)

\* the OffsetLocalIndex operations executed in call k
OffsetsOf(k) ==
    SelectSeq(trace, LAMBDA e : e.call = k /\ e.ev = "dir_op"
                                 /\ e.op.tag = "OffsetLocalIndex")

BaseOf(k) == IF OffsetsOf(k) = <<>> THEN 0
             ELSE OffsetsOf(k)[Len(OffsetsOf(k))].op.offset

\* the files of call k completed before trace position i
DoneBefore(k, i) ==
    Cardinality({j \in 1..(i - 1) : trace[j].call = k /\ trace[j].ev = "file_done"})

C5_LocalIndexIsOffsetPlusK ==
    \A i \in 1..Len(trace) :
        LET e == trace[i]
            expected == BaseOf(e.call) + DoneBefore(e.call, i)
        IN  /\ e.ev = "process_dir" => e.li = 0
            /\ e.ev \in {"run_file", "file_op"} => e.li = expected
            \* the value Variable("local_index") hands to SetName, in the
            \* files the engine still holds (those of the last call)
            /\ (/\ e.ev = "file_op" /\ e.op = ReadsLocalIndex
                /\ e.call = trace[Len(trace)].call)
               => LET name == FileNameOf(engine.files[e.file + 1].destination).v
                      digits == UsizeToString(expected)
                  IN  Slice(name, 0, Len(digits)) = digits

\* a second directory's file reads 0 although the first directory ran
\* OffsetLocalIndex and its file read the offset
C5_Witness ==
    /\ OffsetsOf(1) # <<>>
    /\ \E i \in 1..Len(trace) :
          trace[i].call = 1 /\ trace[i].ev = "run_file" /\ trace[i].li = BaseOf(1)
                            /\ BaseOf(1) > 0
    /\ \E i \in 1..Len(trace) :
          trace[i].call = 2 /\ trace[i].ev = "run_file" /\ trace[i].li = 0

-----------------------------------------------------------------------------
(* C6: within one directory's processing all directory operations (the    *)
(* engine's defaults, then the directory's own) complete before the first *)
(* file operation starts and see destinations no file operation has       *)
(* modified; then for each file the engine's default file operations run, *)
(* in order, before the file's own operations, in order.                  *)

PhaseOf(e) ==
    CASE e.ev = "process_dir" -> 0
      [] e.ev = "dir_op" /\ e.origin = "default" -> 1
      [] e.ev = "dir_op" /\ e.origin = "own" -> 2
      [] e.ev = "run_files" -> 3
      [] OTHER -> 4

StepOf(e) ==
    CASE e.ev = "run_file" -> 0
      [] e.ev = "file_op" /\ e.origin = "default" -> 1
      [] e.ev = "file_op" /\ e.origin = "own" -> 2
      [] OTHER -> 3

\* the operations of the file_op events of one origin for file f of call k
FileOpsRun(k, f, origin) ==
    LET es == SelectSeq(trace, LAMBDA e : e.call = k /\ e.ev = "file_op"
                                           /\ e.file = f /\ e.origin = origin)
    IN  [i \in 1..Len(es) |-> es[i].op]

\* a follows b in the order of one call: by phase, then file, then step,
\* then position in the operation list
Follows(a, b) ==
    \/ PhaseOf(a) < PhaseOf(b)
    \/ /\ PhaseOf(a) = PhaseOf(b) /\ PhaseOf(a) \in {1, 2}
       /\ a.idx < b.idx
    \/ /\ PhaseOf(a) = 4 /\ PhaseOf(b) = 4
       /\ \/ a.file < b.file
          \/ a.file = b.file /\ StepOf(a) < StepOf(b)
          \/ a.file = b.file /\ StepOf(a) = StepOf(b) /\ StepOf(a) \in {1, 2}
                             /\ a.idx < b.idx

C6_OperationOrder ==
    /\ \A i \in 1..(Len(trace) - 1) :
          \/ trace[i].call < trace[i + 1].call
          \/ trace[i].call = trace[i + 1].call /\ Follows(trace[i], trace[i + 1])
    /\ \A i \in 1..Len(trace) :
          LET e == trace[i]
          IN  /\ e.ev = "dir_op" =>
                    \A n \in 1..Len(e.files) : e.files[n].destination = e.files[n].source
              /\ e.ev = "run_files" =>
                    [n \in 1..Len(OpEventsOf(e.call, "dir_op", "own")) |->
                        OpEventsOf(e.call, "dir_op", "own")[n].op]
                    = builder.directories[e.call].dir_ops
              /\ e.ev = "file_done" =>
                    /\ FileOpsRun(e.call, e.file, "default") = builder.file_ops
                    /\ FileOpsRun(e.call, e.file, "own")
                          = builder.directories[e.call].file_ops

\* a directory whose default and own directory operations dropped a file,
\* and a file of it that default and own file operations renamed
C6_Witness ==
    \E k \in CallsWithFiles :
        /\ OpEventsOf(k, "dir_op", "default") # <<>>
        /\ OpEventsOf(k, "dir_op", "own") # <<>>
        /\ Len(Remaining(k)) < Len(EventsOf(k, "process_dir")[1].files)
        /\ \E f \in 0..(Len(Remaining(k)) - 1) :
              /\ FileOpsRun(k, f, "default") # <<>>
              /\ FileOpsRun(k, f, "own") # <<>>
              /\ \E i \in 1..Len(trace) :
                    trace[i].call = k /\ trace[i].ev = "file_done" /\ trace[i].file = f
        /\ \E n \in 1..Len(engine.files) :
              engine.files[n].destination # engine.files[n].source

-----------------------------------------------------------------------------
(* C7: a file operation whose evaluation fails is terminal: Variable(name)*)
(* on an unbound name fails with VariableNotDefined, process_dir returns  *)
(* that error at once, no later operation of the file and no later file   *)
(* of the batch is evaluated, and global_index and local_index are not    *)
(* incremented for the failing file.                                      *)

FilesDone == Cardinality({j \in 1..Len(trace) : trace[j].ev = "file_done"})

C7_FileOperationErrorIsTerminal ==
    /\ \A i \in 1..Len(trace) :
          LET e == trace[i]
          IN  /\ e.err # NoError =>
                    /\ i = Len(trace)
                    /\ pc = "error" /\ error = e.err
                    /\ engine.global_index = e.gi /\ engine.global_index = FilesDone
                    /\ engine.local_index = e.li
                    /\ engine.current_file = e.file
                    /\ tree.files = <<>> /\ run_result = NotRun /\ dry_result = NotRun
              \* Variable("v") yields a value only when v is bound, and
              \* VariableNotDefined otherwise
              /\ (/\ e.ev = "file_op" /\ e.op = ReadsV
                  /\ Remaining(e.call)[e.file + 1].source[2] = NameB)
                 => IF engine.variables["v"].some THEN e.err = NoError
                    ELSE e.err = "VariableNotDefined"
    /\ error = "VariableNotDefined" =>
          trace # <<>> /\ trace[Len(trace)].err = "VariableNotDefined"

\* the first file of a batch of two fails in the first of its two operations
C7_Witness ==
    /\ error = "VariableNotDefined"
    /\ trace[Len(trace)].file = 0
    /\ Len(engine.files) >= 2
    /\ trace[Len(trace)].idx < Len(engine.files[1].ops)

-----------------------------------------------------------------------------
(* Reading the tree *)

HasDuplicateSource(files) ==
    \E i, j \in 1..Len(files) : i < j /\ files[i].source = files[j].source

\* the position of the first record whose source an earlier record has
FirstDuplicate(files) ==
    CHOOSE j \in 1..Len(files) :
        /\ \E i \in 1..(j - 1) : files[i].source = files[j].source
        /\ \A m \in 1..(j - 1) :
              \A i \in 1..(m - 1) : files[i].source # files[m].source

\* the records before position k, as fs::rename is invoked on them
SourcesBefore(files, k) == [i \in 1..(k - 1) |-> files[i].source]
PairsBefore(files, k) == [i \in 1..(k - 1) |-> <<files[i].source, files[i].destination>>]

\* the pairs of the tree's records, as results
PairsAsResults ==
    [i \in 1..Len(tree.files) |->
        RenameResult(tree.files[i].source, tree.files[i].destination)]

-----------------------------------------------------------------------------
(* C8, as claimed: if two File records of a tree have the same source,    *)
(* the commit step (run or dry_run) returns DuplicateFileError instead of *)
(* a result list, and the rename primitive is not invoked for the second  *)
(* record with that source.                                               *)
C8_DuplicateSourceReturnsDuplicateFileError ==
    HasDuplicateSource(tree.files) =>
        /\ dry_result # NotRun => dry_result.err = "DuplicateFileError"
        /\ run_result # NotRun => run_result.err = "DuplicateFileError"
        /\ rename_calls = SourcesBefore(tree.files, Len(rename_calls) + 1)
        /\ Len(rename_calls) < FirstDuplicate(tree.files)

(* C8, amended: if two File records of a tree have the same source, the   *)
(* commit step returns an error instead of a result list and the rename   *)
(* primitive is not invoked for the second record with that source; the   *)
(* error is DuplicateFileError, unless run's rename primitive fails for a *)
(* record before that second record, and then it is RenameError.          *)
C8_DuplicateSourceIsAnError ==
    HasDuplicateSource(tree.files) =>
        /\ dry_result # NotRun => dry_result.err = "DuplicateFileError"
        /\ run_result # NotRun =>
              run_result.err = IF rename_fail_at \in 1..(FirstDuplicate(tree.files) - 1)
                               THEN "RenameError" ELSE "DuplicateFileError"
        /\ rename_calls = SourcesBefore(tree.files, Len(rename_calls) + 1)
        /\ Len(rename_calls) < FirstDuplicate(tree.files)

\* run and dry_run both met the duplicate, run after it renamed a record
C8_Witness ==
    /\ HasDuplicateSource(tree.files)
    /\ run_result.err = "DuplicateFileError"
    /\ dry_result.err = "DuplicateFileError"
    /\ Len(renamed) >= 1

-----------------------------------------------------------------------------
(* C9: if the rename primitive fails for the file at position k of the    *)
(* batch during run, run returns RenameError, the files before it remain  *)
(* renamed (no rollback), and no rename is attempted for a file after it. *)
C9_RenameFailureKeepsEarlierRenames ==
    /\ run_result.err = "RenameError" =>
          /\ rename_fail_at \in 1..Len(tree.files)
          /\ renamed = PairsBefore(tree.files, rename_fail_at)
          /\ rename_calls = SourcesBefore(tree.files, rename_fail_at + 1)
    /\ (/\ run_result # NotRun
        /\ rename_fail_at >= 1
        /\ ~HasDuplicateSource(SubSeq(tree.files, 1, rename_fail_at)))
       => run_result.err = "RenameError"

\* the rename of the second file fails after the first was renamed
C9_Witness ==
    /\ run_result.err = "RenameError"
    /\ rename_fail_at = 2
    /\ Len(renamed) = 1

-----------------------------------------------------------------------------
(* C10: for the same tree, whenever run succeeds, run and dry_run return  *)
(* the same (source, destination) pairs in the same order; dry_run never  *)
(* invokes the rename primitive and leaves the file system as it was.     *)
C10_DryRunAgreesWithRun ==
    /\ [](run_result.err = NoError =>
            /\ run_result.results = PairsAsResults
            /\ dry_result # NotRun => dry_result = run_result)
    /\ [][dry_result' # dry_result =>
            renamed' = renamed /\ rename_calls' = rename_calls]_vars

\* both ran on a tree of two files, one of them renamed by a file operation
C10_Witness ==
    /\ run_result.err = NoError
    /\ dry_result.err = NoError
    /\ Len(run_result.results) >= 2
    /\ \E i \in 1..Len(dry_result.results) :
          dry_result.results[i].destination # dry_result.results[i].source

-----------------------------------------------------------------------------
(* C11 *)

\* the file operations that write the destination when their expression
\* yields a value
RECURSIVE Mutating(_)
Mutating(op) ==
    \/ op.tag \in {"SetName", "SetStem", "SetExtension"}
    \/ /\ op.tag = "If"
       /\ \/ Mutating(op.then_op)
          \/ op.else_op.some /\ Mutating(op.else_op.v)

\* the positions of the history at which the engine was handed a file list
HandOvers == {j \in 1..Len(trace) : trace[j].ev \in {"run_files", "process_file"}}

\* the call that handed the engine the list it holds (0: none so far)
FilesCall ==
    IF HandOvers = {} THEN 0
    ELSE trace[CHOOSE j \in HandOvers : \A l \in HandOvers : l <= j].call

\* the list as the engine received it in call k
HeldBy(k) ==
    IF EventsOf(k, "process_file") # <<>> THEN EventsOf(k, "process_file")[1].files
    ELSE EventsOf(k, "run_files")[1].files

\* the records as they were created for call k
CreatedBy(k) ==
    IF EventsOf(k, "process_file") # <<>> THEN EventsOf(k, "process_file")[1].files
    ELSE EventsOf(k, "process_dir")[1].files

\* C11: no operation writes a file's source.  Whatever directory and file
\* operations ran, every record the engine holds still carries the source
\* it was created with (and was created with destination = source), the
\* dry run reports that source, and a record whose destination differs
\* from its source had a destination-writing file operation executed on it.
C11_SourceIsNeverWritten ==
    LET k == FilesCall
    IN  /\ k = 0 => engine.files = <<>>
        /\ k > 0 =>
              /\ Len(engine.files) = Len(HeldBy(k))
              /\ \A i \in 1..Len(engine.files) :
                    /\ engine.files[i].source = HeldBy(k)[i].source
                    /\ \E j \in 1..Len(CreatedBy(k)) :
                          /\ CreatedBy(k)[j].source = engine.files[i].source
                          /\ CreatedBy(k)[j].destination = engine.files[i].source
                    /\ engine.files[i].destination # engine.files[i].source =>
                          \E j \in 1..Len(trace) :
                              /\ trace[j].ev = "file_op" /\ trace[j].call = k
                              /\ trace[j].file = i - 1
                              /\ Mutating(trace[j].op)
        /\ last_call.op = "dry_run" /\ dry_result.err = NoError =>
              dry_result.results =
                  [i \in 1..Len(engine.files) |->
                      RenameResult(engine.files[i].source, engine.files[i].destination)]

C11_Witness ==
    /\ last_call.op = "dry_run"
    /\ dry_result.err = NoError
    /\ \E i \in 1..Len(dry_result.results) :
          /\ dry_result.results[i].destination # dry_result.results[i].source
          /\ dry_result.results[i].source = CreatedBy(FilesCall)[i].source
    /\ \E j \in 1..Len(trace) : trace[j].ev = "file_op" /\ trace[j].op.tag = "SetStem"

-----------------------------------------------------------------------------
(* C12 *)

-----------------------------------------------------------------------------
(* C13 *)

\* the operations of the events of one kind and origin of call k, in order
OpsOf(k, origin) ==
    LET es == OpEventsOf(k, "file_op", origin) IN [i \in 1..Len(es) |-> es[i].op]

\* C13: single-file mode.  Whatever calls came before, process_file starts
\* with local_index 0 and the cursor on the given file alone, runs the
\* default file operations and then the file's own operations on it, and,
\* when no operation fails, leaves global_index one higher and
\* local_index equal to 1; when an operation fails the counters are not
\* incremented.
C13_SingleFileMode ==
    last_call.op = "process_file" =>
        LET k == last_call.n
            started == EventsOf(k, "process_file")
        IN  /\ Len(started) = 1
            /\ started[1].li = 0 /\ started[1].file = 0
            /\ started[1].gi = last_call.before.global_index
            /\ started[1].files = <<last_call.arg>>
            /\ Len(EventsOf(k, "run_file")) = 1
            /\ \A j \in 1..Len(trace) :
                  trace[j].call = k /\ trace[j].ev = "file_op" =>
                      /\ trace[j].file = 0
                      /\ trace[j].origin = "own" =>
                             OpsOf(k, "default") = last_call.before.file_operations
            /\ Len(engine.files) = 1
            /\ engine.files[1].source = last_call.arg.source
            /\ engine.current_file = 0
            /\ IF last_call.res.err = NoError
               THEN /\ OpsOf(k, "default") = last_call.before.file_operations
                    /\ OpsOf(k, "own") = last_call.arg.ops
                    /\ Len(EventsOf(k, "file_done")) = 1
                    /\ engine.global_index = last_call.before.global_index + 1
                    /\ engine.local_index = 1
               ELSE /\ engine.global_index = last_call.before.global_index
                    /\ engine.local_index = 0
                    /\ EventsOf(k, "file_done") = <<>>

C13_Witness ==
    /\ last_call.op = "process_file"
    /\ last_call.res.err = NoError
    /\ last_call.before.local_index > 1
    /\ last_call.before.global_index > 0
    /\ last_call.before.file_operations # <<>>
    /\ last_call.arg.ops # <<>>
    /\ engine.local_index = 1

-----------------------------------------------------------------------------
(* C14: the operands of a Replace *)

\* the last call evaluated an expression of the given kind
Executed(tag) ==
    /\ last_call.n > 0
    /\ last_call.op = "execute"
    /\ last_call.arg.tag = tag

\* the three operands of the Replace evaluated one after the other from
\* the engine the call started on, whatever the operands before returned
AllOperands ==
    LET x == last_call.arg
        c == ExprExecute(x.content, last_call.before)
        m == ExprExecute(x.match_str, c.eng)
        t == ExprExecute(x.replacement, m.eng)
    IN  [c |-> c, m |-> m, t |-> t]

\* C14 (as stated): a Replace evaluates all three operands on every
\* evaluation.  Whenever none of them fails, the engine after the call is
\* the engine after the third operand, whether or not an earlier operand
\* was absent, and the result is absent exactly when an operand is.
C14_ReplaceEvaluatesAllOperands ==
    Executed("Replace") =>
        LET o == AllOperands
        IN  (o.c.err = NoError /\ o.m.err = NoError /\ o.t.err = NoError) =>
                /\ engine = o.t.eng
                /\ (~last_call.res.val.some) <=>
                       (~o.c.val.some \/ ~o.m.val.some \/ ~o.t.val.some)

\* C14 (amended): a Replace evaluates content, matchExpr and replacementExpr
\* in this order and returns at the first operand that is absent or fails.
\* The engine after the call is the engine after the last operand that was
\* evaluated, so a write inside matchExpr or replacementExpr takes place
\* only when every operand before it was present; the result is absent
\* whenever an evaluated operand is absent.
C14_ReplaceStopsAtFirstAbsence ==
    Executed("Replace") =>
        LET o == AllOperands
        IN  IF o.c.err # NoError \/ ~o.c.val.some
            THEN engine = o.c.eng /\ last_call.res = [err |-> o.c.err, val |-> None]
            ELSE IF o.m.err # NoError \/ ~o.m.val.some
            THEN engine = o.m.eng /\ last_call.res = [err |-> o.m.err, val |-> None]
            ELSE IF o.t.err # NoError \/ ~o.t.val.some
            THEN engine = o.t.eng /\ last_call.res = [err |-> o.t.err, val |-> None]
            ELSE /\ engine = o.t.eng
                 /\ last_call.res.err = NoError
                 /\ last_call.res.val.some

\* content was absent, matchExpr assigns "v", and "v" was not written
C14_Witness ==
    /\ Executed("Replace")
    /\ last_call.arg.content = AbsentExpr
    /\ last_call.arg.match_str = AssignVariableExpr("v", ConstantExpr(<<"a">>))
    /\ last_call.before.variables["v"] = None
    /\ engine.variables["v"] = None
    /\ last_call.res = [err |-> NoError, val |-> None]

-----------------------------------------------------------------------------
(* C15: what a Replace puts in the place of which occurrence *)

\* the last call evaluated a Replace of three constant strings
ReplacedConstants ==
    /\ Executed("Replace")
    /\ last_call.arg.content.tag = "Constant"
    /\ last_call.arg.match_str.tag = "Constant"
    /\ last_call.arg.replacement.tag = "Constant"

\* the byte offsets at which m occurs in c
Occurrences(c, m) == {i \in 0..Len(c) : IsAt(c, m, i)}

\* c with the occurrence of m at offset i replaced by t
ReplacedAt(c, m, t, i) == Slice(c, 0, i) \o t \o Slice(c, i + Len(m), Len(c))

\* c read from offset p on, byte by byte: an occurrence of m met on the
\* way gives way to t and the reading resumes behind it; the empty m
\* occurs before every byte and at the end
RECURSIVE Rebuild(_, _, _, _)
Rebuild(c, m, t, p) ==
    IF p >= Len(c) THEN (IF m = <<>> THEN t ELSE <<>>)
    ELSE IF m = <<>> THEN t \o <<c[p + 1]>> \o Rebuild(c, m, t, p + 1)
    ELSE IF IsAt(c, m, p) THEN t \o Rebuild(c, m, t, p + Len(m))
    ELSE <<c[p + 1]>> \o Rebuild(c, m, t, p + 1)

\* C15: for present content c, match m and replacement t, a Replace
\* returns c unchanged when m does not occur in c; otherwise First
\* replaces the occurrence at the least offset and nothing else, Last the
\* occurrence at the greatest offset and nothing else, and All every
\* occurrence met reading c from left to right, the bytes between them
\* unchanged.  First on "test message message hello" gives "test yo
\* message hello" and Last gives "test message yo hello".
C15_ReplaceSelection ==
    ReplacedConstants =>
        LET x == last_call.arg
            c == x.content.value
            m == x.match_str.value
            t == x.replacement.value
            occ == Occurrences(c, m)
        IN  /\ last_call.res.err = NoError
            /\ last_call.res.val.some
            /\ engine = last_call.before
            /\ occ = {} => last_call.res.val.v = c
            /\ (occ # {} /\ x.selection = "First") =>
                   \E i \in occ : /\ \A j \in occ : i <= j
                                  /\ last_call.res.val.v = ReplacedAt(c, m, t, i)
            /\ (occ # {} /\ x.selection = "Last") =>
                   \E i \in occ : /\ \A j \in occ : j <= i
                                  /\ last_call.res.val.v = ReplacedAt(c, m, t, i)
            /\ x.selection = "All" => last_call.res.val.v = Rebuild(c, m, t, 0)
            /\ (c = TestMessageMessageHello /\ m = Message /\ t = Yo) =>
                   /\ x.selection = "First" =>
                          last_call.res.val.v =
                              <<"t", "e", "s", "t", " ", "y", "o", " ",
                                "m", "e", "s", "s", "a", "g", "e", " ",
                                "h", "e", "l", "l", "o">>
                   /\ x.selection = "Last" =>
                          last_call.res.val.v =
                              <<"t", "e", "s", "t", " ",
                                "m", "e", "s", "s", "a", "g", "e", " ", "y", "o", " ",
                                "h", "e", "l", "l", "o">>
                   /\ x.selection = "All" =>
                          last_call.res.val.v =
                              <<"t", "e", "s", "t", " ", "y", "o", " ", "y", "o", " ",
                                "h", "e", "l", "l", "o">>

\* Last on a content in which the match occurs twice replaced the second
\* occurrence and left the first
C15_Witness ==
    /\ ReplacedConstants
    /\ last_call.arg.selection = "Last"
    /\ last_call.arg.content.value = <<"a", "b", "a">>
    /\ last_call.arg.match_str.value = <<"a">>
    /\ last_call.arg.replacement.value = <<"b">>
    /\ last_call.res.val = Some(<<"a", "b", "b">>)

-----------------------------------------------------------------------------
(* C16: AssignVariable and the variable table *)

\* C16: AssignVariable(name, valueExpr) whose value is absent returns
\* absence and leaves the variable table as it was, the binding of name
\* included; whose value is the string s returns s and leaves a table
\* that maps name to s and every other name to what it was mapped to.
C16_AssignVariable ==
    Executed("AssignVariable") =>
        LET x == last_call.arg
        IN  /\ x.value = AbsentExpr =>
                   /\ last_call.res = [err |-> NoError, val |-> None]
                   /\ engine.variables = last_call.before.variables
            /\ x.value.tag = "Constant" =>
                   /\ last_call.res = [err |-> NoError, val |-> Some(x.value.value)]
                   /\ engine.variables[x.var] = Some(x.value.value)
                   /\ \A n \in VarNames \ {x.var} :
                          engine.variables[n] = last_call.before.variables[n]
                   /\ get_variable(engine, x.var) = Some(x.value.value)

\* "v" was bound, an absent value was assigned to it, and the binding is
\* still there
C16_Witness ==
    /\ Executed("AssignVariable")
    /\ last_call.arg = AssignVariableExpr("v", AbsentExpr)
    /\ last_call.before.variables["v"] = Some(<<"a">>)
    /\ engine.variables["v"] = Some(<<"a">>)
    /\ last_call.res.val = None

-----------------------------------------------------------------------------
(* C17, C18: where an Insert puts its text *)

\* the last call evaluated an Insert of a constant text into a constant base
InsertedConstants ==
    /\ Executed("Insert")
    /\ last_call.arg.base.tag = "Constant"
    /\ last_call.arg.insertion_text.tag = "Constant"

\* b with t put in at byte offset k
PutAt(b, t, k) == Slice(b, 0, k) \o t \o Slice(b, k, Len(b))

\* C17: an Insert at Index(i) never fails: it puts the text at offset i
\* when i <= len(base) and at the end of base when i > len(base).  At
\* Before(marker) and After(marker) it puts the text right before and right
\* after the occurrence of the marker at the least offset, and returns
\* absence when the marker does not occur.  Start puts the text in front
\* of base and End behind it.
C17_InsertPosition ==
    InsertedConstants =>
        LET x == last_call.arg
            b == x.base.value
            t == x.insertion_text.value
            pos == x.position
        IN  /\ last_call.res.err = NoError
            /\ engine = last_call.before
            /\ pos.kind = "Index" =>
                   /\ pos.i <= Len(b) => last_call.res.val = Some(PutAt(b, t, pos.i))
                   /\ pos.i > Len(b) => last_call.res.val = Some(b \o t)
            /\ pos.kind \in {"Before", "After"} =>
                   LET occ == Occurrences(b, pos.f)
                   IN  /\ occ = {} => last_call.res.val = None
                       /\ occ # {} =>
                              \E i \in occ :
                                  /\ \A j \in occ : i <= j
                                  /\ pos.kind = "Before" =>
                                         last_call.res.val = Some(PutAt(b, t, i))
                                  /\ pos.kind = "After" =>
                                         last_call.res.val = Some(PutAt(b, t, i + Len(pos.f)))
            /\ pos.kind = "Start" => last_call.res.val = Some(t \o b)
            /\ pos.kind = "End" => last_call.res.val = Some(b \o t)

\* an index two bytes beyond the end of "ab" appended the text
C17_Witness ==
    /\ InsertedConstants
    /\ last_call.arg.position = Index(4)
    /\ last_call.arg.base.value = <<"a", "b">>
    /\ last_call.arg.insertion_text.value = <<"b", "a">>
    /\ last_call.res = [err |-> NoError, val |-> Some(<<"a", "b", "b", "a">>)]

\* C18 (as stated): an Insert at Index(i) with i > len(base) fails with
\* InsertIndexTooLarge.
C18_LargeIndexIsAnError ==
    (/\ InsertedConstants
     /\ last_call.arg.position.kind = "Index"
     /\ last_call.arg.position.i > Len(last_call.arg.base.value))
        => last_call.res.err = "InsertIndexTooLarge"

\* C18 (amended): an Insert at Index(i) with i > len(base) is not an
\* error: the evaluation returns a string, the one that ends with the
\* inserted text and begins with base, and the engine records no error.
\* No Insert returns InsertIndexTooLarge.
C18_LargeIndexIsNotAnError ==
    Executed("Insert") =>
        /\ last_call.res.err # "InsertIndexTooLarge"
        /\ (/\ InsertedConstants
            /\ last_call.arg.position.kind = "Index"
            /\ last_call.arg.position.i > Len(last_call.arg.base.value)) =>
               /\ last_call.res.err = NoError
               /\ error = NoError
               /\ last_call.res.val.some
               /\ Len(last_call.res.val.v) =
                      Len(last_call.arg.base.value) + Len(last_call.arg.insertion_text.value)
               /\ SubSeq(last_call.res.val.v, 1, Len(last_call.arg.base.value)) =
                      last_call.arg.base.value

\* index 1 on the empty base returned the text and no error
C18_Witness ==
    /\ InsertedConstants
    /\ last_call.arg.position = Index(1)
    /\ last_call.arg.base.value = <<>>
    /\ last_call.arg.insertion_text.value = <<"b">>
    /\ last_call.res = [err |-> NoError, val |-> Some(<<"b">>)]
    /\ error = NoError

-----------------------------------------------------------------------------
(* C19: what an If resolves its condition on *)

\* the destination of the file the engine was on when the call started
DestinationBefore ==
    last_call.before.files[last_call.before.current_file + 1].destination

\* the rule holds on the string
HoldsOn(rule, str) ==
    CASE rule.tag = "Equals" -> str = rule.s
      [] rule.tag = "Contains" -> Occurrences(str, rule.s) # {}
      [] rule.tag = "BeginsWith" -> IsAt(str, rule.s, 0)

\* C19: an If resolves its condition on the last component of the current
\* file's destination, never on the directories before it: it returns what
\* its then-branch returns when the rule holds on that name, what its
\* else-branch returns when the rule does not hold and there is an else,
\* and absence when the rule does not hold and there is no else.
C19_IfResolvesOnFileName ==
    Executed("If") =>
        LET x == last_call.arg
            name == DestinationBefore[Len(DestinationBefore)]
        IN  /\ last_call.res.err = NoError
            /\ HoldsOn(x.condition, name) => last_call.res.val = Some(x.then_expr.value)
            /\ (~HoldsOn(x.condition, name) /\ x.else_expr.some) =>
                   last_call.res.val = Some(x.else_expr.v.value)
            /\ (~HoldsOn(x.condition, name) /\ ~x.else_expr.some) =>
                   last_call.res.val = None

\* the rule holds on the directory of the file but not on its name, and
\* the If without an else returned absence
C19_Witness ==
    /\ Executed("If")
    /\ last_call.arg.condition = Contains(DirP)
    /\ ~last_call.arg.else_expr.some
    /\ Len(DestinationBefore) = 2
    /\ DestinationBefore[1] = DirP
    /\ Occurrences(DestinationBefore[2], DirP) = {}
    /\ last_call.res = [err |-> NoError, val |-> None]

-----------------------------------------------------------------------------
(* C20: the prefix Left keeps and the suffix Right keeps *)

\* the last call evaluated a Left or a Right
ExecutedLeftOrRight == Executed("Left") \/ Executed("Right")

\* C20: for a present input and a present marker, Left returns the bytes
\* of input before the occurrence of the marker at the least offset,
\* followed by the marker when inclusive; Right returns the bytes behind
\* that occurrence, preceded by the marker when inclusive; both return
\* input unchanged when the marker does not occur.  When input or marker
\* is absent the result is absence.  On "test message message hello" with
\* marker "message", Left gives "test message" (inclusive) and "test ",
\* Right gives "message message hello" (inclusive) and " message hello".
C20_LeftRight ==
    ExecutedLeftOrRight =>
        LET x == last_call.arg IN
        /\ (x.input = AbsentExpr \/ x.match_str = AbsentExpr) =>
               last_call.res = [err |-> NoError, val |-> None]
        /\ (x.input.tag = "Constant" /\ x.match_str.tag = "Constant") =>
               LET i == x.input.value
                   m == x.match_str.value
                   occ == Occurrences(i, m)
               IN  /\ last_call.res.err = NoError
                   /\ last_call.res.val.some
                   /\ occ = {} => last_call.res.val.v = i
                   /\ occ # {} =>
                          \E k \in occ :
                              /\ \A j \in occ : k <= j
                              /\ (x.tag = "Left" /\ ~x.inclusive) =>
                                     last_call.res.val.v = SubSeq(i, 1, k)
                              /\ (x.tag = "Left" /\ x.inclusive) =>
                                     last_call.res.val.v = SubSeq(i, 1, k) \o m
                              /\ (x.tag = "Right" /\ ~x.inclusive) =>
                                     last_call.res.val.v = SubSeq(i, k + Len(m) + 1, Len(i))
                              /\ (x.tag = "Right" /\ x.inclusive) =>
                                     last_call.res.val.v = m \o SubSeq(i, k + Len(m) + 1, Len(i))
                   /\ (i = TestMessageMessageHello /\ m = Message) =>
                          last_call.res.val.v =
                              CASE x.tag = "Left" /\ x.inclusive ->
                                      <<"t", "e", "s", "t", " ",
                                        "m", "e", "s", "s", "a", "g", "e">>
                                [] x.tag = "Left" /\ ~x.inclusive ->
                                      <<"t", "e", "s", "t", " ">>
                                [] x.tag = "Right" /\ x.inclusive ->
                                      <<"m", "e", "s", "s", "a", "g", "e", " ",
                                        "m", "e", "s", "s", "a", "g", "e", " ",
                                        "h", "e", "l", "l", "o">>
                                [] x.tag = "Right" /\ ~x.inclusive ->
                                      <<" ", "m", "e", "s", "s", "a", "g", "e", " ",
                                        "h", "e", "l", "l", "o">>

\* an inclusive Left on an input in which the marker occurs twice kept the
\* prefix that ends with the first occurrence
C20_Witness ==
    /\ Executed("Left")
    /\ last_call.arg.inclusive
    /\ last_call.arg.input = ConstantExpr(<<"a", "b", "b">>)
    /\ last_call.arg.match_str = ConstantExpr(<<"b">>)
    /\ last_call.res = [err |-> NoError, val |-> Some(<<"a", "b">>)]

-----------------------------------------------------------------------------
(* C21: what Remove and IncludeOnly resolve their rule on *)

\* the rule holds on the string, by the meaning of each kind of rule
RECURSIVE RuleHolds(_, _)
RuleHolds(rule, str) ==
    CASE rule.tag = "Equals" -> str = rule.s
      [] rule.tag = "Contains" ->
            \E i \in 0..Len(str) : \E j \in i..Len(str) : SubSeq(str, i + 1, j) = rule.s
      [] rule.tag = "BeginsWith" ->
            \E j \in 0..Len(str) : SubSeq(str, 1, j) = rule.s
      [] rule.tag = "EndsWith" ->
            \E i \in 0..Len(str) : SubSeq(str, i + 1, Len(str)) = rule.s
      [] rule.tag = "Not" -> ~RuleHolds(rule.r, str)
      [] rule.tag = "And" -> RuleHolds(rule.r1, str) /\ RuleHolds(rule.r2, str)
      [] rule.tag = "Or" -> RuleHolds(rule.r1, str) \/ RuleHolds(rule.r2, str)

\* the last call executed one Remove or one IncludeOnly on the records
\* the engine held, each of which has a name, and the operation returned
FilteredByCaller ==
    /\ last_call.n > 0
    /\ last_call.op = "dir_ops"
    /\ Len(last_call.arg) = 1
    /\ last_call.arg[1].tag \in {"Remove", "IncludeOnly"}
    /\ last_call.res.err = NoError

\* the last component of a record's destination
NameOf(f) == f.destination[Len(f.destination)]

\* C21: Remove and IncludeOnly resolve their rule on the last component of
\* each record's destination as it is when the operation runs.  Remove
\* returns the records whose name does not match and IncludeOnly the
\* records whose name matches, each list in the order of the input and
\* with the records as they were.
C21_FilterOnDestinationName ==
    FilteredByCaller =>
        LET op == last_call.arg[1]
            input == last_call.before.files
        IN  /\ op.tag = "Remove" =>
                   last_call.res.val =
                       SelectSeq(input, LAMBDA f : ~RuleHolds(op.rule, NameOf(f)))
            /\ op.tag = "IncludeOnly" =>
                   last_call.res.val =
                       SelectSeq(input, LAMBDA f : RuleHolds(op.rule, NameOf(f)))
            /\ engine = last_call.before

\* Remove(Equals("b.y")) kept a record created as b.y whose destination no
\* longer has that name
C21_Witness ==
    /\ FilteredByCaller
    /\ last_call.arg[1] = RemoveOperation(Equals(NameB))
    /\ \E i \in 1..Len(last_call.res.val) :
          /\ last_call.res.val[i].source[2] = NameB
          /\ NameOf(last_call.res.val[i]) # NameB

-----------------------------------------------------------------------------
(* C22: a record without a name stops the batch *)

\* the events of the last call at which a Remove or an IncludeOnly was
\* given a list that holds a record whose destination has no name
MetNameless ==
    {j \in 1..Len(trace) :
        /\ trace[j].call = last_call.n
        /\ trace[j].ev = "dir_op"
        /\ trace[j].op.tag \in {"Remove", "IncludeOnly"}
        /\ \E i \in 1..Len(trace[j].files) :
              ~FileNameOf(trace[j].files[i].destination).some}

\* C22: a Remove or an IncludeOnly that is given a record whose
\* destination has no name fails with CannotIdentifyFileName.  Inside
\* process_dir the failure ends the call: process_dir returns that error,
\* no directory operation runs after the failed one, run_file is entered
\* for no file, no file operation is executed and global_index is what it
\* was before the call.
C22_NamelessRecordAbortsTheBatch ==
    (last_call.n > 0 /\ MetNameless # {}) =>
        /\ last_call.res.err = "CannotIdentifyFileName"
        /\ \A j \in MetNameless :
              /\ trace[j].err = "CannotIdentifyFileName"
              /\ \A l \in (j + 1)..Len(trace) : trace[l].call # last_call.n
        /\ \A l \in 1..Len(trace) :
              trace[l].call = last_call.n =>
                  trace[l].ev \notin {"run_files", "run_file", "file_op", "file_done"}
        /\ engine.global_index = last_call.before.global_index
        /\ engine.files = last_call.before.files

\* process_dir was given the record an earlier call left without a name,
\* by a directory that filters, on an engine that had counted one file
C22_Witness ==
    /\ last_call.n > 0
    /\ last_call.op = "process_held"
    /\ MetNameless # {}
    /\ last_call.arg.file_ops # <<>>
    /\ last_call.res.err = "CannotIdentifyFileName"
    /\ last_call.before.global_index = 1
    /\ engine.global_index = 1

-----------------------------------------------------------------------------
(* C23: Sort *)

\* the last call executed the given sorts on the records the engine held
SortedByCaller(directions) ==
    /\ last_call.n > 0
    /\ last_call.op = "dir_ops"
    /\ last_call.arg = [i \in 1..Len(directions) |-> SortOperation(directions[i])]

\* b holds the records of a, each as often as a holds it
IsPermutation(a, b) ==
    /\ Len(a) = Len(b)
    /\ \A i \in 1..Len(a) :
          Cardinality({j \in 1..Len(a) : a[j] = a[i]}) =
              Cardinality({j \in 1..Len(b) : b[j] = a[i]})

\* the destinations of the list do not decrease (Ascending) or do not
\* increase (Descending) from one record to the next
InOrder(direction, files) ==
    \A i, j \in 1..Len(files) :
        i < j => IF direction = "Ascending"
                 THEN PathCmp(files[i].destination, files[j].destination) <= 0
                 ELSE PathCmp(files[i].destination, files[j].destination) >= 0

\* the list the second sort of the last call was given
AfterFirstSort == OpEventsOf(last_call.n, "dir_op", "caller")[2].files

\* C23: a Sort returns a permutation of the records it was given, in
\* ascending or descending order of destination as requested, and changes
\* nothing else.  A list of records with distinct destinations that is
\* sorted Descending and then Ascending ends in the ascending order of its
\* destinations, the same list that Ascending alone returns: the list as
\* it was, when it was in ascending order.
C23_SortRoundTrip ==
    /\ \A d \in {"Ascending", "Descending"} :
          SortedByCaller(<<d>>) =>
              /\ last_call.res.err = NoError
              /\ IsPermutation(last_call.before.files, last_call.res.val)
              /\ InOrder(d, last_call.res.val)
              /\ engine = last_call.before
    /\ SortedByCaller(<<"Descending", "Ascending">>) =>
          /\ last_call.res.err = NoError
          /\ IsPermutation(last_call.before.files, AfterFirstSort)
          /\ InOrder("Descending", AfterFirstSort)
          /\ IsPermutation(last_call.before.files, last_call.res.val)
          /\ InOrder("Ascending", last_call.res.val)
          /\ last_call.res.val = SortBy("Ascending", last_call.before.files)
          /\ InOrder("Ascending", last_call.before.files) =>
                 last_call.res.val = last_call.before.files
          /\ engine = last_call.before

\* two records with different destinations, held in ascending order, were
\* put in descending order and came back as they were
C23_Witness ==
    /\ SortedByCaller(<<"Descending", "Ascending">>)
    /\ Len(last_call.before.files) = 2
    /\ PathCmp(last_call.before.files[1].destination,
               last_call.before.files[2].destination) < 0
    /\ AfterFirstSort[1] = last_call.before.files[2]
    /\ AfterFirstSort[2] = last_call.before.files[1]
    /\ last_call.res.val = last_call.before.files

-----------------------------------------------------------------------------
(* C24: what an expression may change *)

\* the names the AssignVariable nodes of an expression write
RECURSIVE AssignedNames(_)
AssignedNames(x) ==
    CASE x.tag = "AssignVariable" -> {x.var} \cup AssignedNames(x.value)
      [] x.tag = "Combine" -> AssignedNames(x.lhs) \cup AssignedNames(x.rhs)
      [] x.tag = "Insert" -> AssignedNames(x.base) \cup AssignedNames(x.insertion_text)
      [] x.tag = "Replace" ->
            AssignedNames(x.content) \cup AssignedNames(x.match_str)
                \cup AssignedNames(x.replacement)
      [] x.tag \in {"Left", "Right"} -> AssignedNames(x.input) \cup AssignedNames(x.match_str)
      [] x.tag = "If" ->
            AssignedNames(x.then_expr)
                \cup (IF x.else_expr.some THEN AssignedNames(x.else_expr.v) ELSE {})
      [] OTHER -> {}

\* the last call evaluated an expression
EvaluatedByCaller == last_call.n > 0 /\ last_call.op = "execute"

\* C24: whatever an expression returns, a value, absence or an error, the
\* engine after its evaluation differs from the engine before at most in
\* the variable table, and there only in names an AssignVariable node of
\* the expression writes: the counters, the cursor, the operation lists
\* and every record are what they were.  An expression without an
\* AssignVariable node leaves the engine as it was.
C24_ExpressionsOnlyWriteVariables ==
    EvaluatedByCaller =>
        /\ engine = [last_call.before EXCEPT !.variables = engine.variables]
        /\ \A n \in VarNames :
              engine.variables[n] # last_call.before.variables[n] =>
                  n \in AssignedNames(last_call.arg)
        /\ AssignedNames(last_call.arg) = {} => engine = last_call.before

\* a Replace of three operands without AssignVariable returned a value
\* made from the current file's name and the counter, on an engine that
\* had counted a file and bound a variable, and left the engine as it was
C24_Witness ==
    /\ EvaluatedByCaller
    /\ last_call.arg.tag = "Replace"
    /\ AssignedNames(last_call.arg) = {}
    /\ last_call.res.err = NoError
    /\ last_call.res.val.some
    /\ last_call.before.global_index > 0
    /\ last_call.before.variables["v"].some
    /\ last_call.before.files[1].destination # last_call.before.files[1].source
    /\ engine = last_call.before

-----------------------------------------------------------------------------
(* C25: SetName, SetStem and SetExtension *)

\* the last call executed a file operation on the current file
FileOpByCaller == last_call.n > 0 /\ last_call.op = "file_op"

\* the expression of a SetName, a SetStem or a SetExtension
ExpressionOf(op) ==
    CASE op.tag = "SetName" -> op.name
      [] op.tag = "SetStem" -> op.stem
      [] op.tag = "SetExtension" -> op.extension

\* the destination of the current file before and after the last call
DestinationWas == last_call.before.files[last_call.before.current_file + 1].destination
DestinationIs == engine.files[engine.current_file + 1].destination

\* name ends with the bytes of tail
HasSuffix(name, tail) ==
    /\ Len(tail) <= Len(name)
    /\ SubSeq(name, Len(name) - Len(tail) + 1, Len(name)) = tail

\* C25: a SetName, SetStem or SetExtension whose expression is absent
\* reports false and leaves the engine, the destination included, as it
\* was.  When the expression yields a value the operation reports true and
\* the destination carries the value: SetName makes it the last component;
\* SetStem makes the last component the value followed by "." and the
\* extension the destination had, or the value alone when it had none;
\* SetExtension makes the last component end with "." and the value.
\* Nothing but the current file's destination changes.
C25_SetOperations ==
    FileOpByCaller =>
        LET v == ExprExecute(ExpressionOf(last_call.arg), last_call.before).val
            last == DestinationIs[Len(DestinationIs)]
        IN  /\ last_call.res.err = NoError
            /\ ~v.some => /\ ~last_call.res.changed
                          /\ engine = last_call.before
            /\ v.some =>
                  /\ last_call.res.changed
                  /\ engine = [last_call.before EXCEPT
                                  !.files[last_call.before.current_file + 1].destination =
                                      DestinationIs]
                  /\ last_call.arg.tag = "SetName" => last = v.v
                  /\ last_call.arg.tag = "SetStem" =>
                        last = IF Extension(DestinationWas).some
                               THEN v.v \o <<".">> \o Extension(DestinationWas).v
                               ELSE v.v
                  /\ last_call.arg.tag = "SetExtension" => HasSuffix(last, <<".">> \o v.v)

-----------------------------------------------------------------------------
(* C26: MatchRule::resolve against the meaning of the rules *)

\* the last call resolved a rule on a string
Resolved == last_call.n > 0 /\ last_call.op = "resolve"

\* C26: for every rule and every input string, resolve returns, and what
\* it returns is whether the rule holds on the input: Equals is equality,
\* Contains, BeginsWith and EndsWith are the substring, prefix and suffix
\* tests (false when the needle is longer than the input, true for the
\* empty needle), and And, Or and Not are conjunction, disjunction and
\* negation of what their children give on the same input.
C26_ResolveAgreesWithReference ==
    Resolved =>
        /\ last_call.res.err = NoError
        /\ last_call.res.holds = RuleHolds(last_call.arg, last_call.input)
        /\ (/\ last_call.arg.tag \in {"Contains", "BeginsWith", "EndsWith"}
            /\ Len(last_call.arg.s) > Len(last_call.input)) => ~last_call.res.holds
        /\ (/\ last_call.arg.tag \in {"Contains", "BeginsWith", "EndsWith"}
            /\ last_call.arg.s = <<>>) => last_call.res.holds

-----------------------------------------------------------------------------
(* C27: the two reserved names *)

ReservedNames == {"global_index", "local_index"}

\* the decimal digits of a counter below one hundred
Decimal(n) ==
    LET digits == <<"0", "1", "2", "3", "4", "5", "6", "7", "8", "9">>
    IN  IF n < 10 THEN <<digits[n + 1]>>
        ELSE <<digits[(n \div 10) + 1], digits[(n % 10) + 1]>>

\* the counter of the engine a reserved name reads
CounterOf(eng, name) == IF name = "global_index" THEN eng.global_index ELSE eng.local_index

\* C27: Variable("global_index") and Variable("local_index") return the
\* engine's counter in decimal and no error, whatever the variable table
\* holds under the name, also right after an AssignVariable of the same
\* expression wrote the name; an expression that assigns to a reserved
\* name writes the table and leaves both counters as they were.
C27_ReservedNamesReadTheCounters ==
    EvaluatedByCaller =>
        /\ (/\ last_call.arg.tag = "Variable"
            /\ last_call.arg.var \in ReservedNames) =>
               /\ last_call.res.err = NoError
               /\ last_call.res.val =
                      Some(Decimal(CounterOf(last_call.before, last_call.arg.var)))
        /\ (/\ last_call.arg.tag = "Combine"
            /\ last_call.arg.lhs.tag = "AssignVariable"
            /\ last_call.arg.lhs.value.tag = "Constant"
            /\ last_call.arg.rhs = VariableExpr(last_call.arg.lhs.var)
            /\ last_call.arg.lhs.var \in ReservedNames) =>
               /\ last_call.res.err = NoError
               /\ last_call.res.val =
                      Some(last_call.arg.lhs.value.value
                           \o Decimal(CounterOf(last_call.before, last_call.arg.lhs.var)))
        /\ (AssignedNames(last_call.arg) \cap ReservedNames # {}) =>
               /\ engine.global_index = last_call.before.global_index
               /\ engine.local_index = last_call.before.local_index
               /\ last_call.res.err = NoError =>
                      \A n \in AssignedNames(last_call.arg) \cap ReservedNames :
                          engine.variables[n].some

\* on an engine that had counted a file, one expression wrote "b" under
\* global_index and then read global_index: the read gave the counter, the
\* table holds "b", and the counter is what it was
C27_Witness ==
    /\ EvaluatedByCaller
    /\ last_call.arg = CombineExpr(AssignVariableExpr("global_index", ConstantExpr(<<"b">>)),
                                   VariableExpr("global_index"))
    /\ last_call.before.global_index > 0
    /\ last_call.res.val = Some(<<"b">> \o Decimal(last_call.before.global_index))
    /\ engine.variables["global_index"] = Some(<<"b">>)
    /\ engine.global_index = last_call.before.global_index

-----------------------------------------------------------------------------
(* C28: If on a destination without a file name *)

\* C28: evaluating an If expression returns: a value, absence or one of
\* the errors of the crate, also when the destination of the current file
\* has no file name, where it returns absence or an error; the evaluation
\* never unwinds.
C28_IfAlwaysReturns ==
    (EvaluatedByCaller /\ last_call.arg.tag = "If") =>
        /\ last_call.res.err # "Panic"
        /\ ~FileNameOf(last_call.before.files[last_call.before.current_file + 1]
                           .destination).some =>
               \/ last_call.res.err # NoError
               \/ ~last_call.res.val.some

-----------------------------------------------------------------------------
(* C29: the duplicate check is interleaved with the renames *)

\* run returned DuplicateFileError
RunMetDuplicate == run_result # NotRun /\ run_result.err = "DuplicateFileError"

\* C29: when run returns DuplicateFileError, the record it stopped at is
\* the first whose source an earlier record has; the records before it
\* have pairwise distinct sources and every one of them has been renamed
\* on the file system, in order, and no record at or after it has been:
\* the check is made record by record, between the renames.
C29_DuplicateCheckIsInterleaved ==
    RunMetDuplicate =>
        /\ HasDuplicateSource(tree.files)
        /\ \E k \in {FirstDuplicate(tree.files)} :
              /\ \A i, j \in 1..(k - 1) :
                    i # j => tree.files[i].source # tree.files[j].source
              /\ Len(renamed) = k - 1
              /\ \A i \in 1..(k - 1) :
                    renamed[i] = <<tree.files[i].source, tree.files[i].destination>>
              /\ Len(rename_calls) = k - 1
              /\ rename_fail_at \notin 1..(k - 1)

\* run stopped at the second record, whose source the first has: the
\* first had been renamed on the file system by then, and it alone
C29_Witness ==
    /\ RunMetDuplicate
    /\ FirstDuplicate(tree.files) = 2
    /\ renamed = <<<<tree.files[1].source, tree.files[1].destination>>>>
    /\ rename_calls = <<tree.files[1].source>>

-----------------------------------------------------------------------------
(* C30: the cursor when the current file is read *)

\* the events of the history at which run_file or a file operation, and
\* through it an expression, has the current file at hand
CursorReads == {j \in 1..Len(trace) : trace[j].ev \in {"run_file", "file_op", "file_done"}}

\* the events of the history made during a process_dir call
DuringProcessDir ==
    {j \in 1..Len(trace) : EventsOf(trace[j].call, "process_dir") # <<>>}

====
